---- MODULE Spec2Model ----
(***************************************************************************)
(* ghostway: a TCP-over-HTTP tunnel made of two relays.                    *)
(*                                                                         *)
(*   ingress (src/client):  main.py, tcp_client.py, response_handler.py    *)
(*       one asyncio event loop; a step of the model is the code that runs *)
(*       between two suspension points (await) of a task.                  *)
(*   egress, two programs that speak the same wire protocol:               *)
(*     "http_to_tcp" (src/server/http_to_tcp.py): a single-threaded        *)
(*       HTTPServer plus one response thread per target connection, all    *)
(*       sharing the module-level maps under threading.Lock.               *)
(*     "tcp_server"  (src/server/tcp_server.py): TcpServer on an asyncio   *)
(*       loop, one response task per target connection, asyncio.Lock.      *)
(*       Its HTTP front end is the one src/server/main.py installs with    *)
(*       setup_routes(), which the sources do not contain.                 *)
(*                                                                         *)
(* Data is modelled in chunks: one chunk is what one read of a socket      *)
(* returns.  A chunk written by application connection c is <<c, n>>, a    *)
(* chunk written by the target on target connection k is <<k, n>>.         *)
(***************************************************************************)
EXTENDS Integers, Sequences, FiniteSets, TLC

\* ------------------------------------------------------------------ bounds
MaxConns   == 2    \* application connections accepted by the ingress
MaxPort    == 2    \* distinct ephemeral ports a peer address can carry
MaxChunks  == 2    \* chunks written by all application clients together
MaxReplies == 2    \* chunks written by the target on all connections together
MaxFaults  == 1    \* HTTP requests lost and target dials refused, together
MaxEvents  == 3    \* things the relays' surroundings do, all kinds together
MaxForeign == 1    \* POSTs of other senders: callbacks not sent by a pump,
                   \* data POSTs not sent by the ingress

Conns == 1..MaxConns
Ports == 1..MaxPort
Socks == 1..MaxConns          \* every PUT dials at most once
NoData == <<0, 0>>

\* tcp_client.py and tcp_server.py, lines 8-10: the limits of the adaptive
\* read size, the same in both files.
INITIAL_BUFFER_SIZE == 1024
MAX_BUFFER_SIZE == 65536
BUFFER_GROWTH_FACTOR == 2

\* config.py: payloads longer than this are compressed when GZIP_ENABLED.
GZIP_THRESHOLD_BYTES == 1024

\* The two read loops with an adaptive read size: the ingress loop on the
\* application socket, the egress loop on the target socket.
Loops == {"handle_tcp_client", "handle_tcp_responses"}

\* Byte strings: raw is what the bytes are once every gzip layer is taken
\* off, a run of len bytes of value byte; gz is the number of gzip layers
\* around it.
Run(len, byte) == [len |-> len, byte |-> byte]
Bytes(raw) == [gz |-> 0, raw |-> raw]

\* No POST has been made, none has been received.  A POST is kept with the
\* GZIP_ENABLED setting of its sender; the senders that have no such
\* setting never compress.
NoRequest ==
  [from |-> "none", body |-> [b64 |-> Bytes(Run(0, 0))], encoding |-> "none",
   enabled |-> FALSE]
NoDelivery == [by |-> "none", status |-> "none", bytes |-> Bytes(Run(0, 0))]

VARIABLES
  \* ---- application clients and their sockets at the ingress
  peername,               \* conn -> <<host, port>> of the accepted socket
  appSent,                \* conn -> number of chunks the client has written
  appEnd,                 \* conn -> "open" | "fin" | "rst": what the client did
  appRecv,                \* conn -> chunks written to the application socket
  \* ---- ingress relay (src/client)
  ipc,                    \* conn -> position of handle_new_client's task
  session_id,             \* conn -> session id given at accept (0: none yet)
  ingRead,                \* conn -> number of chunks read from the app socket
  is_closing,             \* conn -> writer.is_closing()
  put_result,             \* conn -> what initialize_session saw and dropped
  active_client_writers,  \* session id -> conn whose writer is registered, 0
  \* ---- HTTP requests in flight
  toEgress,               \* PUT / POST / DELETE sent by the ingress
  toIngress,              \* callback POSTs sent by the egress
  faults,                 \* faults injected so far
  \* ---- egress relay
  impl,                   \* which egress program runs
  tcp_connections,        \* session id -> target connection, 0
  response_endpoints,     \* session id -> "none" | "dict" | "url"
  connection_lock,        \* holder of the registry lock
  hpc, hsock,             \* position of the egress main thread, and its socket
  \* ---- target connections (egress side) and the target behind them
  nsocks,                 \* target connections dialled so far
  sockSid,                \* sock -> session id it was dialled for
  sockState,              \* sock -> "unused" | "open" | "closed" (egress end)
  sockWritten,            \* sock -> chunks written to the target
  sockWriter,             \* sock -> conn whose PUT dialled it
  tgtSent,                \* sock -> number of chunks the target has written
  tgtFin,                 \* sock -> the target closed its end
  pumpRead,               \* sock -> number of chunks the pump has read
  ppc,                    \* sock -> position of the response pump
  \* ---- routines of the relays that are also checked on their own
  current_buffer_size,    \* read loop -> size its next read asks for
  received_length,        \* read loop -> length of what its last read returned
  sent_data,              \* bytes a sender was given to forward
  request,                \* the POST it made of them: body and headers
  decoded_data            \* what the receiver of the POST made of it

appVars  == <<peername, appSent, appEnd, appRecv>>
ingVars  == <<ipc, session_id, ingRead, is_closing, put_result,
              active_client_writers>>
netVars  == <<toEgress, toIngress, faults>>
egrVars  == <<impl, tcp_connections, response_endpoints, connection_lock,
              hpc, hsock>>
sockVars == <<nsocks, sockSid, sockState, sockWritten, sockWriter, tgtSent,
              tgtFin, pumpRead, ppc>>
unitVars == <<current_buffer_size, received_length, sent_data, request,
              decoded_data>>
vars == <<appVars, ingVars, netVars, egrVars, sockVars, unitVars>>

\* ----------------------------------------------------------------- helpers
IsPrefix(s, t) == Len(s) <= Len(t) /\ \A i \in 1..Len(s) : s[i] = t[i]

\* The first n chunks of source src, in the order they were written.
Stream(src, n) == [i \in 1..n |-> <<src, i>>]

Sum(f, S) ==
  LET RECURSIVE Go(_)
      Go(T) == IF T = {} THEN 0
               ELSE LET x == CHOOSE y \in T : TRUE IN f[x] + Go(T \ {x})
  IN Go(S)

Req(kind, sid, conn, data) ==
  [kind |-> kind, sid |-> sid, conn |-> conn, data |-> data, st |-> "sent"]

\* A callback POST of the response pump of target connection sock: its body
\* is the base64 text of the chunk (of the gzip member holding it, with
\* X-Content-Encoding: gzip), which is what body "valid" stands for.
Callback(sid, sock, data) ==
  [sid |-> sid, sock |-> sock, data |-> data, st |-> "sent", body |-> "valid"]

\* What a body can be, for the callback handler of the ingress:
\*   "valid"         base64 of the payload (gzipped when the header says so)
\*   "b64_padding"   text whose base64 padding is incorrect
\*   "b64_alphabet"  text with characters outside the base64 alphabet and
\*                   correct padding of what remains
\*   "gz_magic"      gzip declared, base64 of bytes without the gzip magic
\*   "gz_truncated"  gzip declared, base64 of a gzip member cut short
Bodies == {"valid", "b64_padding", "b64_alphabet", "gz_magic", "gz_truncated"}

\* A request the sender is no longer waiting for: answered, or failed.
Settled(m) == m.st \in {"lost", "200", "400", "404", "410", "500"}
\* response.raise_for_status(): a status of 400 and above raises.
Raises(m) == m.st \in {"lost", "400", "404", "410", "500"}

Answer(msgs, m, status) == (msgs \ {m}) \cup {[m EXCEPT !.st = status]}

LockFree == connection_lock = <<"free", 0>>

\* What the surroundings of the two relays have done so far: chunks written
\* by clients and by the target, connections ended by them, faults.
Events ==
  Sum(appSent, Conns) + Sum(tgtSent, Socks) + faults
  + Cardinality({m \in toIngress : m.sock = 0})
  + Cardinality({m \in toEgress : m.conn = 0})
  + Cardinality({c \in Conns : appEnd[c] # "open"})
  + Cardinality({k \in Socks : tgtFin[k]})

\* Ephemeral ports are numbered in the order the ingress first sees them.
NextPorts ==
  {p \in Ports : \A q \in 1..(p - 1) : \E c \in Conns : peername[c][2] = q}

\* ------------------------------------------------------------------- Init
Init ==
  /\ peername = [c \in Conns |-> <<0, 0>>]
  /\ appSent = [c \in Conns |-> 0]
  /\ appEnd = [c \in Conns |-> "open"]
  /\ appRecv = [c \in Conns |-> <<>>]
  /\ ipc = [c \in Conns |-> "none"]
  /\ session_id = [c \in Conns |-> 0]
  /\ ingRead = [c \in Conns |-> 0]
  /\ is_closing = [c \in Conns |-> FALSE]
  /\ put_result = [c \in Conns |-> "none"]
  /\ active_client_writers = [p \in Ports |-> 0]
  /\ toEgress = {}
  /\ toIngress = {}
  /\ faults = 0
  /\ impl \in {"http_to_tcp", "tcp_server"}
  /\ tcp_connections = [p \in Ports |-> 0]
  /\ response_endpoints = [p \in Ports |-> "none"]
  /\ connection_lock = <<"free", 0>>
  /\ hpc = "idle"
  /\ hsock = 0
  /\ nsocks = 0
  /\ sockSid = [k \in Socks |-> 0]
  /\ sockState = [k \in Socks |-> "unused"]
  /\ sockWritten = [k \in Socks |-> <<>>]
  /\ sockWriter = [k \in Socks |-> 0]
  /\ tgtSent = [k \in Socks |-> 0]
  /\ tgtFin = [k \in Socks |-> FALSE]
  /\ pumpRead = [k \in Socks |-> 0]
  /\ ppc = [k \in Socks |-> "none"]
  /\ current_buffer_size = [l \in Loops |-> INITIAL_BUFFER_SIZE]
  /\ received_length = [l \in Loops |-> 0]
  /\ sent_data = Bytes(Run(0, 0))
  /\ request = NoRequest
  /\ decoded_data = NoDelivery

\* ------------------------------------------------- application clients
\* A client writes its next chunk on its open connection.
ClientWrite(c) ==
  /\ ipc[c] # "none" /\ appEnd[c] = "open"
  /\ Events < MaxEvents /\ Sum(appSent, Conns) < MaxChunks
  /\ appSent' = [appSent EXCEPT ![c] = @ + 1]
  /\ UNCHANGED <<peername, appEnd, appRecv, ingVars, netVars, egrVars, unitVars, sockVars>>

\* A client ends its connection: "fin" is an orderly close (the ingress reads
\* what is buffered, then EOF), "rst" an abort (the transport is lost at once:
\* writer.is_closing() turns true and the next read raises).
ClientClose(c, how) ==
  /\ ipc[c] # "none" /\ appEnd[c] = "open"
  /\ Events < MaxEvents
  /\ appEnd' = [appEnd EXCEPT ![c] = how]
  /\ is_closing' = [is_closing EXCEPT ![c] = @ \/ how = "rst"]
  /\ UNCHANGED <<peername, appSent, appRecv, ipc, session_id, ingRead,
                 put_result, active_client_writers, netVars, egrVars, unitVars, sockVars>>

\* ------------------------------------------------------ ingress relay
\* main.py:17  session_id = str(addr[1])
SessionIdOf(addr) == addr[2]

\* main.py handle_new_client up to the await of the PUT
\* (tcp_client.py initialize_session).  Connection c comes from host c;
\* connections are numbered in the order they are accepted.
handle_new_client(c, port) ==
  /\ ipc[c] = "none" /\ \A d \in 1..(c - 1) : ipc[d] # "none"
  /\ peername' = [peername EXCEPT ![c] = <<c, port>>]
  /\ session_id' = [session_id EXCEPT ![c] = SessionIdOf(<<c, port>>)]
  /\ toEgress' = toEgress \cup {Req("PUT", SessionIdOf(<<c, port>>), c, NoData)}
  /\ ipc' = [ipc EXCEPT ![c] = "put"]
  /\ UNCHANGED <<appSent, appEnd, appRecv, ingRead, is_closing, put_result,
                 active_client_writers, toIngress, faults, egrVars, unitVars, sockVars>>

\* initialize_session returns, whatever the PUT's outcome (both except
\* clauses only log); handle_tcp_client then registers the writer and
\* enters its read loop.
initialize_session_returns(c) ==
  /\ ipc[c] = "put"
  /\ \E m \in toEgress :
       /\ m.conn = c /\ m.kind = "PUT" /\ Settled(m)
       /\ toEgress' = toEgress \ {m}
       /\ put_result' = [put_result EXCEPT ![c] = IF Raises(m) THEN "failed" ELSE "ok"]
  /\ active_client_writers' = [active_client_writers EXCEPT ![session_id[c]] = c]
  /\ ipc' = [ipc EXCEPT ![c] = "read"]
  /\ UNCHANGED <<appVars, session_id, ingRead, is_closing, toIngress, faults,
                 egrVars, unitVars, sockVars>>

\* forward_to_http as it would be if the POST were started without being
\* awaited: the read loop goes on while the POST is in flight.
forward_to_http_unawaited(c, data) ==
  /\ toEgress' = toEgress \cup {Req("POST", session_id[c], c, data)}
  /\ ipc' = ipc

\* tcp_client.py forward_to_http: the POST is sent and awaited.
forward_to_http(c, data) ==
  /\ toEgress' = toEgress \cup {Req("POST", session_id[c], c, data)}
  /\ ipc' = [ipc EXCEPT ![c] = "post"]

\* One iteration of the read loop: reader.read returns a chunk, which is
\* forwarded.
read_chunk(c) ==
  /\ ipc[c] = "read"
  /\ appEnd[c] # "rst" /\ ingRead[c] < appSent[c]
  /\ ingRead' = [ingRead EXCEPT ![c] = @ + 1]
  /\ forward_to_http(c, <<c, ingRead[c] + 1>>)
  /\ UNCHANGED <<appVars, session_id, is_closing, put_result,
                 active_client_writers, toIngress, faults, egrVars, unitVars, sockVars>>

\* forward_to_http returns, whatever the POST's outcome (both except clauses
\* only log), and the loop reads again.
forward_to_http_returns(c) ==
  /\ ipc[c] = "post"
  /\ \E m \in toEgress :
       /\ m.conn = c /\ m.kind = "POST" /\ Settled(m)
       /\ toEgress' = toEgress \ {m}
  /\ ipc' = [ipc EXCEPT ![c] = "read"]
  /\ UNCHANGED <<appVars, session_id, ingRead, is_closing, put_result,
                 active_client_writers, toIngress, faults, egrVars, unitVars, sockVars>>

\* The end of the read loop as it would be if the finally block did not
\* call send_close_event: no DELETE is sent.
read_loop_exit_silent(c) ==
  /\ ipc[c] = "read"
  /\ \/ appEnd[c] = "rst"
     \/ appEnd[c] = "fin" /\ ingRead[c] = appSent[c]
  /\ active_client_writers' = [active_client_writers EXCEPT ![session_id[c]] = 0]
  /\ is_closing' = [is_closing EXCEPT ![c] = TRUE]
  /\ ipc' = [ipc EXCEPT ![c] = "done"]
  /\ UNCHANGED <<appVars, session_id, ingRead, put_result, netVars,
                 egrVars, unitVars, sockVars>>

\* The read loop ends (EOF after the buffered chunks, or a reset) and the
\* finally block runs: the registry entry under the session id is deleted,
\* the writer is closed, and send_close_event sends the DELETE.
read_loop_exit(c) ==
  /\ ipc[c] = "read"
  /\ \/ appEnd[c] = "rst"
     \/ appEnd[c] = "fin" /\ ingRead[c] = appSent[c]
  /\ active_client_writers' = [active_client_writers EXCEPT ![session_id[c]] = 0]
  /\ is_closing' = [is_closing EXCEPT ![c] = TRUE]
  /\ toEgress' = toEgress \cup {Req("DELETE", session_id[c], c, NoData)}
  /\ ipc' = [ipc EXCEPT ![c] = "delete"]
  /\ UNCHANGED <<appVars, session_id, ingRead, put_result, toIngress, faults,
                 egrVars, unitVars, sockVars>>

\* send_close_event returns, whatever the DELETE's outcome.
send_close_event_returns(c) ==
  /\ ipc[c] = "delete"
  /\ \E m \in toEgress :
       /\ m.conn = c /\ m.kind = "DELETE" /\ Settled(m)
       /\ toEgress' = toEgress \ {m}
  /\ ipc' = [ipc EXCEPT ![c] = "done"]
  /\ UNCHANGED <<appVars, session_id, ingRead, is_closing, put_result,
                 active_client_writers, toIngress, faults, egrVars, unitVars, sockVars>>

\* response_handler.py, the decoding of the body before the registry is
\* looked at.  base64.b64decode (validate off) drops the characters outside
\* the alphabet and raises binascii.Error on incorrect padding, which only
\* the outermost except catches: 500.  gzip.decompress raises BadGzipFile
\* on a missing magic: 400; its EOFError on a truncated member falls to the
\* inner "except Exception": 500.  "ok" stands for bytes handed on.
Decode(body) ==
  CASE body = "valid"        -> "ok"
    [] body = "b64_alphabet" -> "ok"
    [] body = "b64_padding"  -> "500"
    [] body = "gz_magic"     -> "400"
    [] body = "gz_truncated" -> "500"

\* The bytes b64decode hands on: the payload, or for a text with foreign
\* characters whatever the remaining characters decode to.
Decoded(m) == IF m.body = "valid" THEN m.data ELSE NoData

\* How writer.write and drain on the application socket of c can end: once
\* the client has closed, the send may fail and drain then raises.
AppWriteOutcomes(c) ==
  IF appEnd[c] = "open" THEN {TRUE} ELSE {TRUE, FALSE}

\* handle_http_response as it would be if a failed send left the transport
\* of the application socket open.
handle_http_response_keeps_open(m) ==
  /\ m \in toIngress /\ m.st = "sent"
  /\ LET writer == active_client_writers[m.sid] IN
       IF Decode(m.body) # "ok"
       THEN /\ toIngress' = Answer(toIngress, m, Decode(m.body))
            /\ appRecv' = appRecv
       ELSE IF writer # 0 /\ ~is_closing[writer]
       THEN \E ok \in AppWriteOutcomes(writer) :
              IF ok
              THEN /\ appRecv' = [appRecv EXCEPT ![writer] = Append(@, Decoded(m))]
                   /\ toIngress' = Answer(toIngress, m, "200")
              ELSE /\ appRecv' = appRecv
                   /\ toIngress' = Answer(toIngress, m, "500")
       ELSE /\ toIngress' = Answer(toIngress, m, IF writer # 0 THEN "410" ELSE "404")
            /\ appRecv' = appRecv
  /\ UNCHANGED <<peername, appSent, appEnd, ingVars, toEgress, faults, egrVars, unitVars,
                 sockVars>>

\* response_handler.py handle_http_response: the callback POST m is handled.
\* No await separates the registry lookup from writer.write.  A failed send
\* closes the transport (the writer is closing from then on) and is
\* answered 500; the registry is not touched.
handle_http_response(m) ==
  /\ m \in toIngress /\ m.st = "sent"
  /\ LET writer == active_client_writers[m.sid] IN
       IF Decode(m.body) # "ok"
       THEN /\ toIngress' = Answer(toIngress, m, Decode(m.body))
            /\ UNCHANGED <<appRecv, is_closing>>
       ELSE IF writer # 0 /\ ~is_closing[writer]
       THEN \E ok \in AppWriteOutcomes(writer) :
              IF ok
              THEN /\ appRecv' = [appRecv EXCEPT ![writer] = Append(@, Decoded(m))]
                   /\ toIngress' = Answer(toIngress, m, "200")
                   /\ is_closing' = is_closing
              ELSE /\ appRecv' = appRecv
                   /\ toIngress' = Answer(toIngress, m, "500")
                   /\ is_closing' = [is_closing EXCEPT ![writer] = TRUE]
       ELSE /\ toIngress' = Answer(toIngress, m, IF writer # 0 THEN "410" ELSE "404")
            /\ UNCHANGED <<appRecv, is_closing>>
  /\ UNCHANGED <<peername, appSent, appEnd, ipc, session_id, ingRead, put_result,
                 active_client_writers, toEgress, faults, egrVars, unitVars, sockVars>>

\* ------------------------------------------------ target and its sockets
\* socket.connect / asyncio.open_connection succeeded: a fresh target
\* connection for session sid, dialled while handling a PUT of conn.
Dial(sid, conn, pump) ==
  LET k == nsocks + 1 IN
  /\ nsocks' = k
  /\ sockSid' = [sockSid EXCEPT ![k] = sid]
  /\ sockState' = [sockState EXCEPT ![k] = "open"]
  /\ sockWriter' = [sockWriter EXCEPT ![k] = conn]
  /\ ppc' = [ppc EXCEPT ![k] = pump]
  /\ UNCHANGED <<sockWritten, tgtSent, tgtFin, pumpRead>>

\* How a write on target connection k can end: it raises on a socket this
\* relay has closed, and may raise once the target has closed its end.
WriteOutcomes(k) ==
  IF sockState[k] # "open" THEN {FALSE}
  ELSE IF tgtFin[k] THEN {TRUE, FALSE} ELSE {TRUE}

\* The target writes its next chunk on connection k (a banner, an echo, ...).
TargetWrite(k) ==
  /\ sockState[k] = "open" /\ ~tgtFin[k]
  /\ Events < MaxEvents /\ Sum(tgtSent, Socks) < MaxReplies
  /\ tgtSent' = [tgtSent EXCEPT ![k] = @ + 1]
  /\ UNCHANGED <<appVars, ingVars, netVars, egrVars, unitVars, nsocks, sockSid, sockState,
                 sockWritten, sockWriter, tgtFin, pumpRead, ppc>>

\* The target closes connection k.
TargetClose(k) ==
  /\ sockState[k] # "unused" /\ ~tgtFin[k]
  /\ Events < MaxEvents
  /\ tgtFin' = [tgtFin EXCEPT ![k] = TRUE]
  /\ UNCHANGED <<appVars, ingVars, netVars, egrVars, unitVars, nsocks, sockSid, sockState,
                 sockWritten, sockWriter, tgtSent, pumpRead, ppc>>

\* An HTTP request is lost on the way (connection error): the receiver never
\* handles it and the sender's call raises.
LoseRequest(m) ==
  /\ Events < MaxEvents /\ faults < MaxFaults /\ m.st = "sent"
  /\ faults' = faults + 1
  /\ \/ m \in toEgress /\ toEgress' = Answer(toEgress, m, "lost")
        /\ toIngress' = toIngress
     \/ m \in toIngress /\ toIngress' = Answer(toIngress, m, "lost")
        /\ toEgress' = toEgress
  /\ UNCHANGED <<appVars, ingVars, egrVars, unitVars, sockVars>>

\* ------------------------------------- egress relay, http_to_tcp.py
\* The request the server thread is in the middle of.
Handling == CHOOSE m \in toEgress : m.st = "handling"

\* ensure_tcp_connection as it would be without the check for an existing
\* connection: every PUT dials.
H_ensure_tcp_connection_redials(sid, conn, success) ==
  \/ /\ success /\ nsocks < MaxConns
     /\ Dial(sid, conn, IF response_endpoints'[sid] # "none" THEN "start" ELSE "none")
     /\ tcp_connections' = [tcp_connections EXCEPT ![sid] = nsocks + 1]
     /\ faults' = faults
  \/ /\ ~success /\ Events < MaxEvents /\ faults < MaxFaults
     /\ faults' = faults + 1
     /\ UNCHANGED <<tcp_connections, sockVars>>

\* ensure_tcp_connection(session_id), returning `success`.
H_ensure_tcp_connection(sid, conn, success) ==
  IF tcp_connections[sid] # 0
  THEN success /\ UNCHANGED <<tcp_connections, sockVars, faults>>
  ELSE \/ /\ success
          /\ Dial(sid, conn, IF response_endpoints'[sid] # "none" THEN "start" ELSE "none")
          /\ tcp_connections' = [tcp_connections EXCEPT ![sid] = nsocks + 1]
          /\ faults' = faults
       \/ /\ ~success /\ Events < MaxEvents /\ faults < MaxFaults
          /\ faults' = faults + 1
          /\ UNCHANGED <<tcp_connections, sockVars>>

\* do_PUT as it would be if it dialled without recording the endpoint.
H_do_PUT_unregistered(m) ==
  /\ impl = "http_to_tcp" /\ hpc = "idle" /\ LockFree
  /\ m \in toEgress /\ m.kind = "PUT" /\ m.st = "sent"
  /\ response_endpoints' = response_endpoints
  /\ \E success \in BOOLEAN :
       /\ H_ensure_tcp_connection(m.sid, m.conn, success)
       /\ toEgress' = Answer(toEgress, m, IF success THEN "200" ELSE "500")
  /\ UNCHANGED <<appVars, ingVars, toIngress, impl, unitVars, connection_lock, hpc, hsock>>

\* do_PUT: record the callback endpoint, then ensure_tcp_connection.
H_do_PUT(m) ==
  /\ impl = "http_to_tcp" /\ hpc = "idle" /\ LockFree
  /\ m \in toEgress /\ m.kind = "PUT" /\ m.st = "sent"
  /\ response_endpoints' = [response_endpoints EXCEPT ![m.sid] = "dict"]
  /\ \E success \in BOOLEAN :
       /\ H_ensure_tcp_connection(m.sid, m.conn, success)
       /\ toEgress' = Answer(toEgress, m, IF success THEN "200" ELSE "500")
  /\ UNCHANGED <<appVars, ingVars, toIngress, impl, unitVars, connection_lock, hpc, hsock>>

\* do_POST as it would be without its own look into tcp_connections,
\* leaving the unknown session to forward_to_tcp.
H_do_POST_unchecked(m) ==
  /\ impl = "http_to_tcp" /\ hpc = "idle" /\ LockFree
  /\ m \in toEgress /\ m.kind = "POST" /\ m.st = "sent"
  /\ response_endpoints' = [response_endpoints EXCEPT ![m.sid] = "dict"]
  /\ toEgress' = Answer(toEgress, m, "handling") /\ hpc' = "fwd"
  /\ UNCHANGED <<appVars, ingVars, toIngress, faults, impl, unitVars, tcp_connections,
                 connection_lock, hsock, sockVars>>

\* do_POST as it would be if it called ensure_tcp_connection for a session
\* it does not know, instead of answering 400.
H_do_POST_ensures(m) ==
  /\ impl = "http_to_tcp" /\ hpc = "idle" /\ LockFree
  /\ m \in toEgress /\ m.kind = "POST" /\ m.st = "sent"
  /\ response_endpoints' = [response_endpoints EXCEPT ![m.sid] = "dict"]
  /\ H_ensure_tcp_connection(m.sid, m.conn, TRUE)
  /\ toEgress' = Answer(toEgress, m, "handling") /\ hpc' = "fwd"
  /\ UNCHANGED <<appVars, ingVars, toIngress, impl, unitVars, connection_lock, hsock>>

\* do_POST up to the call of forward_to_tcp: the Response-Port header (the
\* ingress sends it on every POST) overwrites the endpoint; 400 when the
\* session has no target connection.
H_do_POST(m) ==
  /\ impl = "http_to_tcp" /\ hpc = "idle" /\ LockFree
  /\ m \in toEgress /\ m.kind = "POST" /\ m.st = "sent"
  /\ response_endpoints' = [response_endpoints EXCEPT ![m.sid] = "dict"]
  /\ IF tcp_connections[m.sid] = 0
     THEN toEgress' = Answer(toEgress, m, "400") /\ hpc' = hpc
     ELSE toEgress' = Answer(toEgress, m, "handling") /\ hpc' = "fwd"
  /\ UNCHANGED <<appVars, ingVars, toIngress, faults, impl, unitVars, tcp_connections,
                 connection_lock, hsock, sockVars>>

\* forward_to_tcp, first half: the socket is looked up under the lock and
\* the lock is released.
H_forward_to_tcp_lookup ==
  /\ impl = "http_to_tcp" /\ hpc = "fwd" /\ LockFree
  /\ IF tcp_connections[Handling.sid] = 0
     THEN /\ toEgress' = Answer(toEgress, Handling, "500")
          /\ hpc' = "idle" /\ hsock' = 0
     ELSE /\ hsock' = tcp_connections[Handling.sid]
          /\ hpc' = "send" /\ toEgress' = toEgress
  /\ UNCHANGED <<appVars, ingVars, toIngress, faults, impl, unitVars, tcp_connections,
                 response_endpoints, connection_lock, sockVars>>

\* forward_to_tcp, second half: sock.sendall(data) outside the lock; when it
\* raises, whatever is registered under the session id is closed and deleted.
H_forward_to_tcp_sendall ==
  /\ impl = "http_to_tcp" /\ hpc = "send" /\ LockFree
  /\ \E ok \in WriteOutcomes(hsock) :
       IF ok
       THEN /\ sockWritten' = [sockWritten EXCEPT ![hsock] = Append(@, Handling.data)]
            /\ toEgress' = Answer(toEgress, Handling, "200")
            /\ UNCHANGED <<tcp_connections, sockState>>
       ELSE /\ toEgress' = Answer(toEgress, Handling, "500")
            /\ sockState' = IF tcp_connections[Handling.sid] = 0 THEN sockState
                            ELSE [sockState EXCEPT ![tcp_connections[Handling.sid]] = "closed"]
            /\ tcp_connections' = [tcp_connections EXCEPT ![Handling.sid] = 0]
            /\ sockWritten' = sockWritten
  /\ hpc' = "idle" /\ hsock' = 0
  /\ UNCHANGED <<appVars, ingVars, toIngress, faults, impl, unitVars, response_endpoints,
                 connection_lock, nsocks, sockSid, sockWriter, tgtSent, tgtFin,
                 pumpRead, ppc>>

\* do_DELETE, under the lock: tcp_connections[session_id].close() ...
H_do_DELETE_close(m) ==
  /\ impl = "http_to_tcp" /\ hpc = "idle" /\ LockFree
  /\ m \in toEgress /\ m.kind = "DELETE" /\ m.st = "sent"
  /\ connection_lock' = <<"http", 0>>
  /\ hpc' = "del"
  /\ toEgress' = Answer(toEgress, m, "handling")
  /\ sockState' = IF tcp_connections[m.sid] = 0 THEN sockState
                  ELSE [sockState EXCEPT ![tcp_connections[m.sid]] = "closed"]
  /\ UNCHANGED <<appVars, ingVars, toIngress, faults, impl, unitVars, tcp_connections,
                 response_endpoints, hsock, nsocks, sockSid, sockWritten,
                 sockWriter, tgtSent, tgtFin, pumpRead, ppc>>

\* do_DELETE as it would be if it refused a session it does not know
\* with 404 instead of answering 200.
H_do_DELETE_remove_known ==
  /\ impl = "http_to_tcp" /\ hpc = "del"
  /\ tcp_connections' = [tcp_connections EXCEPT ![Handling.sid] = 0]
  /\ response_endpoints' = [response_endpoints EXCEPT ![Handling.sid] = "none"]
  /\ connection_lock' = <<"free", 0>>
  /\ hpc' = "idle"
  /\ toEgress' = Answer(toEgress, Handling,
                        IF tcp_connections[Handling.sid] = 0 THEN "404" ELSE "200")
  /\ UNCHANGED <<appVars, ingVars, toIngress, faults, impl, unitVars, hsock, sockVars>>

\* ... then del tcp_connections[session_id], del response_endpoints
\* [session_id], the lock is released and 200 is sent.
H_do_DELETE_remove ==
  /\ impl = "http_to_tcp" /\ hpc = "del"
  /\ tcp_connections' = [tcp_connections EXCEPT ![Handling.sid] = 0]
  /\ response_endpoints' = [response_endpoints EXCEPT ![Handling.sid] = "none"]
  /\ connection_lock' = <<"free", 0>>
  /\ hpc' = "idle"
  /\ toEgress' = Answer(toEgress, Handling, "200")
  /\ UNCHANGED <<appVars, ingVars, toIngress, faults, impl, unitVars, hsock, sockVars>>

\* handle_tcp_responses, entry: the endpoint is read under the lock; the
\* thread returns at once when there is none.
H_handle_tcp_responses_start(k) ==
  /\ impl = "http_to_tcp" /\ ppc[k] = "start" /\ LockFree
  /\ ppc' = [ppc EXCEPT ![k] =
               IF response_endpoints[sockSid[k]] = "none" THEN "done" ELSE "recv"]
  /\ UNCHANGED <<appVars, ingVars, netVars, egrVars, unitVars, nsocks, sockSid, sockState,
                 sockWritten, sockWriter, tgtSent, tgtFin, pumpRead>>

\* sock.recv returned a chunk.
H_handle_tcp_responses_recv(k) ==
  /\ impl = "http_to_tcp" /\ ppc[k] = "recv"
  /\ sockState[k] = "open" /\ pumpRead[k] < tgtSent[k]
  /\ pumpRead' = [pumpRead EXCEPT ![k] = @ + 1]
  /\ ppc' = [ppc EXCEPT ![k] = "got"]
  /\ UNCHANGED <<appVars, ingVars, netVars, egrVars, unitVars, nsocks, sockSid,
                 sockState, sockWritten, sockWriter, tgtSent, tgtFin>>

\* requests.post sends the chunk just read to the callback; the thread holds
\* no lock and looks at no registry between recv and the POST.
H_handle_tcp_responses_post(k) ==
  /\ impl = "http_to_tcp" /\ ppc[k] = "got"
  /\ toIngress' = toIngress \cup {Callback(sockSid[k], k, <<k, pumpRead[k]>>)}
  /\ ppc' = [ppc EXCEPT ![k] = "post"]
  /\ UNCHANGED <<appVars, ingVars, toEgress, faults, egrVars, unitVars, nsocks, sockSid,
                 sockState, sockWritten, sockWriter, tgtSent, tgtFin, pumpRead>>

\* requests.post returned: any status continues the loop, an exception
\* (the request was lost) leaves it.
H_handle_tcp_responses_posted(k) ==
  /\ impl = "http_to_tcp" /\ ppc[k] = "post"
  /\ \E m \in toIngress :
       /\ m.sock = k /\ Settled(m)
       /\ toIngress' = toIngress \ {m}
       /\ ppc' = [ppc EXCEPT ![k] = IF m.st = "lost" THEN "fin" ELSE "recv"]
  /\ UNCHANGED <<appVars, ingVars, toEgress, faults, egrVars, unitVars, nsocks, sockSid,
                 sockState, sockWritten, sockWriter, tgtSent, tgtFin, pumpRead>>

\* The loop is left: recv returned b"" (the target closed), recv raised (the
\* socket was closed under the thread), or a recv timeout found the session
\* gone from tcp_connections.
H_handle_tcp_responses_break(k) ==
  /\ impl = "http_to_tcp" /\ ppc[k] = "recv"
  /\ \/ sockState[k] = "closed"
     \/ tgtFin[k] /\ pumpRead[k] = tgtSent[k]
     \/ LockFree /\ tcp_connections[sockSid[k]] # k
  /\ ppc' = [ppc EXCEPT ![k] = "fin"]
  /\ UNCHANGED <<appVars, ingVars, netVars, egrVars, unitVars, nsocks, sockSid, sockState,
                 sockWritten, sockWriter, tgtSent, tgtFin, pumpRead>>

\* finally as it would be if it deleted the session without closing the
\* socket.
H_handle_tcp_responses_finally_unclosed(k) ==
  /\ impl = "http_to_tcp" /\ ppc[k] = "fin" /\ LockFree
  /\ IF tcp_connections[sockSid[k]] = k
     THEN tcp_connections' = [tcp_connections EXCEPT ![sockSid[k]] = 0]
     ELSE tcp_connections' = tcp_connections
  /\ ppc' = [ppc EXCEPT ![k] = "done"]
  /\ UNCHANGED <<appVars, ingVars, netVars, impl, unitVars, response_endpoints,
                 connection_lock, hpc, hsock, nsocks, sockSid, sockState,
                 sockWritten, sockWriter, tgtSent, tgtFin, pumpRead>>

\* finally, under the lock: when the session still maps to this socket it is
\* closed and deleted from tcp_connections.
H_handle_tcp_responses_finally(k) ==
  /\ impl = "http_to_tcp" /\ ppc[k] = "fin" /\ LockFree
  /\ IF tcp_connections[sockSid[k]] = k
     THEN /\ sockState' = [sockState EXCEPT ![k] = "closed"]
          /\ tcp_connections' = [tcp_connections EXCEPT ![sockSid[k]] = 0]
     ELSE UNCHANGED <<sockState, tcp_connections>>
  /\ ppc' = [ppc EXCEPT ![k] = "done"]
  /\ UNCHANGED <<appVars, ingVars, netVars, impl, unitVars, response_endpoints,
                 connection_lock, hpc, hsock, nsocks, sockSid, sockWritten,
                 sockWriter, tgtSent, tgtFin, pumpRead>>

\* ------------------------------------- egress relay, server/ package
\* TcpServer (tcp_server.py) behind the handlers of request_handler.py.  An
\* entry of tcp_connections stands for the session's reader, writer and
\* response task; the handlers' sendall and close act on its writer.

\* close_session_components as it would be if it dropped every endpoint
\* instead of the one of its session.
S_close_session_components_all(sid) ==
  /\ sockState' = IF tcp_connections[sid] = 0 THEN sockState
                  ELSE [sockState EXCEPT ![tcp_connections[sid]] = "closed"]
  /\ tcp_connections' = [tcp_connections EXCEPT ![sid] = 0]
  /\ response_endpoints' = [s \in Ports |-> "none"]

\* close_session_components(session_id, originating_task_cancelled = True),
\* once the lock is held: the entry is popped, its writer closed if it is
\* not closing, and the endpoint deleted.
S_close_session_components(sid) ==
  /\ sockState' = IF tcp_connections[sid] = 0 THEN sockState
                  ELSE [sockState EXCEPT ![tcp_connections[sid]] = "closed"]
  /\ tcp_connections' = [tcp_connections EXCEPT ![sid] = 0]
  /\ response_endpoints' = [response_endpoints EXCEPT ![sid] = "none"]

\* ensure_tcp_connection up to its await, given the maps it finds under
\* the lock: the connection exists already, no endpoint is configured, or
\* the target is dialled.
S_ensure_entry(conns, endpoints, sid) ==
  IF conns[sid] # 0 THEN "exists"
  ELSE IF endpoints[sid] = "none" THEN "refused"
  ELSE "dial"

\* The PUT handler: the callback URL is recorded, then
\* ensure_tcp_connection runs up to its await of asyncio.open_connection,
\* which it makes holding the lock.
S_do_PUT(m) ==
  /\ impl = "tcp_server" /\ LockFree
  /\ m \in toEgress /\ m.kind = "PUT" /\ m.st = "sent"
  /\ response_endpoints' = [response_endpoints EXCEPT ![m.sid] = "url"]
  /\ LET entry == S_ensure_entry(tcp_connections, response_endpoints', m.sid) IN
       IF entry = "dial"
       THEN /\ toEgress' = Answer(toEgress, m, "dial")
            /\ connection_lock' = <<"put", m.conn>>
       ELSE /\ toEgress' = Answer(toEgress, m, IF entry = "exists" THEN "200" ELSE "500")
            /\ connection_lock' = connection_lock
  /\ UNCHANGED <<appVars, ingVars, toIngress, faults, impl, unitVars, tcp_connections,
                 hpc, hsock, sockVars>>

\* ensure_tcp_connection, after the await: on success the response task is
\* created and the connection registered; the lock is released.
S_ensure_tcp_connection(m) ==
  /\ impl = "tcp_server"
  /\ m \in toEgress /\ m.st = "dial" /\ connection_lock = <<"put", m.conn>>
  /\ \E success \in BOOLEAN :
       /\ \/ /\ success
             /\ Dial(m.sid, m.conn, "start")
             /\ tcp_connections' = [tcp_connections EXCEPT ![m.sid] = nsocks + 1]
             /\ faults' = faults
          \/ /\ ~success /\ Events < MaxEvents /\ faults < MaxFaults
             /\ faults' = faults + 1
             /\ UNCHANGED <<tcp_connections, sockVars>>
       /\ toEgress' = Answer(toEgress, m, IF success THEN "200" ELSE "500")
  /\ connection_lock' = <<"free", 0>>
  /\ UNCHANGED <<appVars, ingVars, toIngress, impl, unitVars, response_endpoints, hpc, hsock>>

\* request_handler.py do_POST: the Response-Port header overwrites the
\* endpoint with an {ip, port} entry; under the lock, 400 when the session
\* has no target connection, otherwise the chunk is written to it.
S_do_POST(m) ==
  /\ impl = "tcp_server" /\ LockFree
  /\ m \in toEgress /\ m.kind = "POST" /\ m.st = "sent"
  /\ response_endpoints' = [response_endpoints EXCEPT ![m.sid] = "dict"]
  /\ IF tcp_connections[m.sid] = 0
     THEN toEgress' = Answer(toEgress, m, "400") /\ sockWritten' = sockWritten
     ELSE \E ok \in WriteOutcomes(tcp_connections[m.sid]) :
            IF ok
            THEN /\ sockWritten' = [sockWritten EXCEPT
                                      ![tcp_connections[m.sid]] = Append(@, m.data)]
                 /\ toEgress' = Answer(toEgress, m, "200")
            ELSE /\ sockWritten' = sockWritten
                 /\ toEgress' = Answer(toEgress, m, "500")
  /\ UNCHANGED <<appVars, ingVars, toIngress, faults, impl, unitVars, tcp_connections,
                 connection_lock, hpc, hsock, nsocks, sockSid, sockState,
                 sockWriter, tgtSent, tgtFin, pumpRead, ppc>>

\* request_handler.py do_DELETE, under the lock: the connection is closed,
\* then deleted from tcp_connections; the endpoint is deleted.
S_do_DELETE(m) ==
  /\ impl = "tcp_server" /\ LockFree
  /\ m \in toEgress /\ m.kind = "DELETE" /\ m.st = "sent"
  /\ sockState' = IF tcp_connections[m.sid] = 0 THEN sockState
                  ELSE [sockState EXCEPT ![tcp_connections[m.sid]] = "closed"]
  /\ tcp_connections' = [tcp_connections EXCEPT ![m.sid] = 0]
  /\ response_endpoints' = [response_endpoints EXCEPT ![m.sid] = "none"]
  /\ toEgress' = Answer(toEgress, m, "200")
  /\ UNCHANGED <<appVars, ingVars, toIngress, faults, impl, unitVars, connection_lock,
                 hpc, hsock, nsocks, sockSid, sockWritten, sockWriter, tgtSent,
                 tgtFin, pumpRead, ppc>>

\* handle_tcp_responses, entry: under the lock the endpoint is read; the
\* task returns at once when there is none or when it is not a string.
S_handle_tcp_responses_start(k) ==
  /\ impl = "tcp_server" /\ ppc[k] = "start" /\ LockFree
  /\ ppc' = [ppc EXCEPT ![k] =
               IF response_endpoints[sockSid[k]] = "url" THEN "recv" ELSE "done"]
  /\ UNCHANGED <<appVars, ingVars, netVars, egrVars, unitVars, nsocks, sockSid, sockState,
                 sockWritten, sockWriter, tgtSent, tgtFin, pumpRead>>

\* reader.read returned a chunk: it is posted to the callback URL and the
\* task awaits the response.
S_handle_tcp_responses_recv(k) ==
  /\ impl = "tcp_server" /\ ppc[k] = "recv"
  /\ sockState[k] = "open" /\ pumpRead[k] < tgtSent[k]
  /\ pumpRead' = [pumpRead EXCEPT ![k] = @ + 1]
  /\ toIngress' = toIngress \cup {Callback(sockSid[k], k, <<k, pumpRead[k] + 1>>)}
  /\ ppc' = [ppc EXCEPT ![k] = "post"]
  /\ UNCHANGED <<appVars, ingVars, toEgress, faults, egrVars, unitVars, nsocks, sockSid,
                 sockState, sockWritten, sockWriter, tgtSent, tgtFin>>

\* The POST is over: raise_for_status, like a lost request, leaves the loop.
S_handle_tcp_responses_posted(k) ==
  /\ impl = "tcp_server" /\ ppc[k] = "post"
  /\ \E m \in toIngress :
       /\ m.sock = k /\ Settled(m)
       /\ toIngress' = toIngress \ {m}
       /\ ppc' = [ppc EXCEPT ![k] = IF Raises(m) THEN "fin" ELSE "recv"]
  /\ UNCHANGED <<appVars, ingVars, toEgress, faults, egrVars, unitVars, nsocks, sockSid,
                 sockState, sockWritten, sockWriter, tgtSent, tgtFin, pumpRead>>

\* The loop is left: reader.read returned b"" (the target closed, or the
\* writer was closed by a handler).
S_handle_tcp_responses_break(k) ==
  /\ impl = "tcp_server" /\ ppc[k] = "recv"
  /\ \/ sockState[k] = "closed"
     \/ tgtFin[k] /\ pumpRead[k] = tgtSent[k]
  /\ ppc' = [ppc EXCEPT ![k] = "fin"]
  /\ UNCHANGED <<appVars, ingVars, netVars, egrVars, unitVars, nsocks, sockSid, sockState,
                 sockWritten, sockWriter, tgtSent, tgtFin, pumpRead>>

\* finally: a writer that is not closing is closed and wait_closed awaited;
\* then close_session_components is awaited.  With the writer closing
\* already and the lock free, nothing suspends the task in between.
S_handle_tcp_responses_finally(k) ==
  /\ impl = "tcp_server" /\ ppc[k] = "fin"
  /\ IF sockState[k] = "open"
     THEN /\ sockState' = [sockState EXCEPT ![k] = "closed"]
          /\ ppc' = [ppc EXCEPT ![k] = "csc"]
          /\ UNCHANGED <<tcp_connections, response_endpoints>>
     ELSE IF LockFree
          THEN /\ S_close_session_components(sockSid[k])
               /\ ppc' = [ppc EXCEPT ![k] = "done"]
          ELSE /\ ppc' = [ppc EXCEPT ![k] = "csc"]
               /\ UNCHANGED <<sockState, tcp_connections, response_endpoints>>
  /\ UNCHANGED <<appVars, ingVars, netVars, impl, unitVars, connection_lock, hpc, hsock,
                 nsocks, sockSid, sockWritten, sockWriter, tgtSent, tgtFin, pumpRead>>

\* finally, second half: close_session_components gets the lock.
S_handle_tcp_responses_cleanup(k) ==
  /\ impl = "tcp_server" /\ ppc[k] = "csc" /\ LockFree
  /\ S_close_session_components(sockSid[k])
  /\ ppc' = [ppc EXCEPT ![k] = "done"]
  /\ UNCHANGED <<appVars, ingVars, netVars, impl, unitVars, connection_lock, hpc, hsock,
                 nsocks, sockSid, sockWritten, sockWriter, tgtSent, tgtFin, pumpRead>>

\* ------------------------------------------------------------------- Next
Next ==
  \/ \E c \in Conns : ClientWrite(c)
  \/ \E c \in Conns, how \in {"fin", "rst"} : ClientClose(c, how)
  \/ \E c \in Conns, port \in NextPorts : handle_new_client(c, port)
  \/ \E c \in Conns : initialize_session_returns(c)
  \/ \E c \in Conns : read_chunk(c)
  \/ \E c \in Conns : forward_to_http_returns(c)
  \/ \E c \in Conns : read_loop_exit(c)
  \/ \E c \in Conns : send_close_event_returns(c)
  \/ \E m \in toIngress : handle_http_response(m)
  \/ \E k \in Socks : TargetWrite(k)
  \/ \E k \in Socks : TargetClose(k)
  \/ \E m \in toEgress \cup toIngress : LoseRequest(m)
  \/ \E m \in toEgress : H_do_PUT(m)
  \/ \E m \in toEgress : H_do_POST(m)
  \/ H_forward_to_tcp_lookup
  \/ H_forward_to_tcp_sendall
  \/ \E m \in toEgress : H_do_DELETE_close(m)
  \/ H_do_DELETE_remove
  \/ \E k \in Socks : H_handle_tcp_responses_start(k)
  \/ \E k \in Socks : H_handle_tcp_responses_recv(k)
  \/ \E k \in Socks : H_handle_tcp_responses_post(k)
  \/ \E k \in Socks : H_handle_tcp_responses_posted(k)
  \/ \E k \in Socks : H_handle_tcp_responses_break(k)
  \/ \E k \in Socks : H_handle_tcp_responses_finally(k)
  \/ \E m \in toEgress : S_do_PUT(m)
  \/ \E m \in toEgress : S_ensure_tcp_connection(m)
  \/ \E m \in toEgress : S_do_POST(m)
  \/ \E m \in toEgress : S_do_DELETE(m)
  \/ \E k \in Socks : S_handle_tcp_responses_start(k)
  \/ \E k \in Socks : S_handle_tcp_responses_recv(k)
  \/ \E k \in Socks : S_handle_tcp_responses_posted(k)
  \/ \E k \in Socks : S_handle_tcp_responses_break(k)
  \/ \E k \in Socks : S_handle_tcp_responses_finally(k)
  \/ \E k \in Socks : S_handle_tcp_responses_cleanup(k)

Spec == Init /\ [][Next]_vars

\* ------------------------------------------------ runs without failures
\* The ingress with the http_to_tcp egress when nothing fails and no
\* connection is ended: no request is lost, no dial is refused, clients and
\* target keep their connections open.
LiveInit == Init /\ impl = "http_to_tcp"

LiveNext ==
  \/ \E c \in Conns : ClientWrite(c)
  \/ \E k \in Socks : TargetWrite(k)
  \/ \E c \in Conns, port \in NextPorts : handle_new_client(c, port)
  \/ \E c \in Conns : initialize_session_returns(c)
  \/ \E c \in Conns : read_chunk(c)
  \/ \E c \in Conns : forward_to_http_returns(c)
  \/ \E m \in toIngress : handle_http_response(m)
  \/ \E m \in toEgress : H_do_PUT(m) /\ faults' = faults
  \/ \E m \in toEgress : H_do_POST(m)
  \/ H_forward_to_tcp_lookup
  \/ H_forward_to_tcp_sendall
  \/ \E k \in Socks : H_handle_tcp_responses_start(k)
  \/ \E k \in Socks : H_handle_tcp_responses_recv(k)
  \/ \E k \in Socks : H_handle_tcp_responses_post(k)
  \/ \E k \in Socks : H_handle_tcp_responses_posted(k)

\* Scheduling: the event loop of the ingress runs every task that is ready,
\* and the operating system runs every thread of the egress that is ready.
\* Nothing is assumed of clients and target.
LiveFairness ==
  /\ \A c \in Conns :
       WF_vars(\/ initialize_session_returns(c)
               \/ read_chunk(c)
               \/ forward_to_http_returns(c))
  /\ WF_vars(\E m \in toIngress : handle_http_response(m))
  /\ WF_vars(\/ \E m \in toEgress : H_do_PUT(m) /\ faults' = faults
             \/ \E m \in toEgress : H_do_POST(m)
             \/ H_forward_to_tcp_lookup
             \/ H_forward_to_tcp_sendall)
  /\ \A k \in Socks :
       WF_vars(\/ H_handle_tcp_responses_start(k)
               \/ H_handle_tcp_responses_recv(k)
               \/ H_handle_tcp_responses_post(k)
               \/ H_handle_tcp_responses_posted(k))

LiveSpec == LiveInit /\ [][LiveNext]_vars /\ LiveFairness

\* ------------------------------------- ingress relay, tcp_to_http.py
\* The threaded ingress: an accept loop, one thread per application
\* connection, and a single-threaded HTTPServer for the callbacks.  Its
\* registry active_tcp_connections (session id -> client socket) is held in
\* active_client_writers, the closed state of a client socket in is_closing.

\* start, one turn of the accept loop up to the PUT: the socket is stored
\* under the peer's port, then initialize_session sends the PUT and the loop
\* waits for it, accepting nobody meanwhile.
T_start_accept(c, port) ==
  /\ ipc[c] = "none" /\ \A d \in 1..(c - 1) : ipc[d] \notin {"none", "put"}
  /\ peername' = [peername EXCEPT ![c] = <<c, port>>]
  /\ session_id' = [session_id EXCEPT ![c] = SessionIdOf(<<c, port>>)]
  /\ active_client_writers' =
       [active_client_writers EXCEPT ![SessionIdOf(<<c, port>>)] = c]
  /\ toEgress' = toEgress \cup {Req("PUT", SessionIdOf(<<c, port>>), c, NoData)}
  /\ ipc' = [ipc EXCEPT ![c] = "put"]
  /\ UNCHANGED <<appSent, appEnd, appRecv, ingRead, is_closing, put_result,
                 toIngress, faults, egrVars, unitVars, sockVars>>

\* initialize_session returns, whatever the PUT's outcome (the status is only
\* logged, a RequestException too), and the connection's thread is started.
T_initialize_session_returns(c) ==
  /\ ipc[c] = "put"
  /\ \E m \in toEgress :
       /\ m.conn = c /\ m.kind = "PUT" /\ Settled(m)
       /\ toEgress' = toEgress \ {m}
       /\ put_result' = [put_result EXCEPT ![c] = IF Raises(m) THEN "failed" ELSE "ok"]
  /\ ipc' = [ipc EXCEPT ![c] = "read"]
  /\ UNCHANGED <<appVars, session_id, ingRead, is_closing,
                 active_client_writers, toIngress, faults, egrVars, unitVars, sockVars>>

\* handle_tcp_client, one turn of the loop: recv returns a chunk and
\* forward_to_http posts it and waits for the answer.
T_handle_tcp_client_recv(c) ==
  /\ ipc[c] = "read"
  /\ appEnd[c] # "rst" /\ ingRead[c] < appSent[c]
  /\ ingRead' = [ingRead EXCEPT ![c] = @ + 1]
  /\ toEgress' = toEgress \cup {Req("POST", session_id[c], c, <<c, ingRead[c] + 1>>)}
  /\ ipc' = [ipc EXCEPT ![c] = "post"]
  /\ UNCHANGED <<appVars, session_id, is_closing, put_result,
                 active_client_writers, toIngress, faults, egrVars, unitVars, sockVars>>

\* forward_to_http returns, whatever the POST's outcome (status and
\* exceptions are only logged).
T_forward_to_http_returns(c) ==
  /\ ipc[c] = "post"
  /\ \E m \in toEgress :
       /\ m.conn = c /\ m.kind = "POST" /\ Settled(m)
       /\ toEgress' = toEgress \ {m}
  /\ ipc' = [ipc EXCEPT ![c] = "read"]
  /\ UNCHANGED <<appVars, session_id, ingRead, is_closing, put_result,
                 active_client_writers, toIngress, faults, egrVars, unitVars, sockVars>>

\* The loop is left (recv returned b"" or raised socket.error): leaving
\* `with client_socket` closes the socket, then send_close_event sends the
\* DELETE.  The socket is still in active_tcp_connections.
T_handle_tcp_client_exit(c) ==
  /\ ipc[c] = "read"
  /\ \/ appEnd[c] = "rst"
     \/ appEnd[c] = "fin" /\ ingRead[c] = appSent[c]
  /\ is_closing' = [is_closing EXCEPT ![c] = TRUE]
  /\ toEgress' = toEgress \cup {Req("DELETE", session_id[c], c, NoData)}
  /\ ipc' = [ipc EXCEPT ![c] = "delete"]
  /\ UNCHANGED <<appVars, session_id, ingRead, put_result,
                 active_client_writers, toIngress, faults, egrVars, unitVars, sockVars>>

\* send_close_event returns, whatever the DELETE's outcome, and the entry
\* under the session id is deleted from active_tcp_connections.
T_send_close_event_returns(c) ==
  /\ ipc[c] = "delete"
  /\ \E m \in toEgress :
       /\ m.conn = c /\ m.kind = "DELETE" /\ Settled(m)
       /\ toEgress' = toEgress \ {m}
  /\ active_client_writers' = [active_client_writers EXCEPT ![session_id[c]] = 0]
  /\ ipc' = [ipc EXCEPT ![c] = "done"]
  /\ UNCHANGED <<appVars, session_id, ingRead, is_closing, put_result,
                 toIngress, faults, egrVars, unitVars, sockVars>>

\* ResponseHandler.do_POST: under the lock, 404 when the session id is not
\* in active_tcp_connections; otherwise sendall on the stored socket, 200,
\* or 500 when sendall raises socket.error (the socket is closed).
T_ResponseHandler_do_POST(m) ==
  /\ m \in toIngress /\ m.st = "sent"
  /\ LET client_socket == active_client_writers[m.sid] IN
       IF client_socket = 0
       THEN /\ toIngress' = Answer(toIngress, m, "404")
            /\ appRecv' = appRecv
       ELSE IF is_closing[client_socket]
       THEN /\ toIngress' = Answer(toIngress, m, "500")
            /\ appRecv' = appRecv
       ELSE /\ toIngress' = Answer(toIngress, m, "200")
            /\ appRecv' = [appRecv EXCEPT ![client_socket] = Append(@, m.data)]
  /\ UNCHANGED <<peername, appSent, appEnd, ingVars, toEgress, faults, egrVars, unitVars,
                 sockVars>>

\* The two threaded programs together: tcp_to_http.py and http_to_tcp.py.
ThreadedInit == Init /\ impl = "http_to_tcp"

ThreadedNext ==
  \/ \E c \in Conns : ClientWrite(c)
  \/ \E c \in Conns, how \in {"fin", "rst"} : ClientClose(c, how)
  \/ \E k \in Socks : TargetWrite(k)
  \/ \E k \in Socks : TargetClose(k)
  \/ \E m \in toEgress \cup toIngress : LoseRequest(m)
  \/ \E c \in Conns, port \in NextPorts : T_start_accept(c, port)
  \/ \E c \in Conns : T_initialize_session_returns(c)
  \/ \E c \in Conns : T_handle_tcp_client_recv(c)
  \/ \E c \in Conns : T_forward_to_http_returns(c)
  \/ \E c \in Conns : T_handle_tcp_client_exit(c)
  \/ \E c \in Conns : T_send_close_event_returns(c)
  \/ \E m \in toIngress : T_ResponseHandler_do_POST(m)
  \/ \E m \in toEgress : H_do_PUT(m)
  \/ \E m \in toEgress : H_do_POST(m)
  \/ H_forward_to_tcp_lookup
  \/ H_forward_to_tcp_sendall
  \/ \E m \in toEgress : H_do_DELETE_close(m)
  \/ H_do_DELETE_remove
  \/ \E k \in Socks : H_handle_tcp_responses_start(k)
  \/ \E k \in Socks : H_handle_tcp_responses_recv(k)
  \/ \E k \in Socks : H_handle_tcp_responses_post(k)
  \/ \E k \in Socks : H_handle_tcp_responses_posted(k)
  \/ \E k \in Socks : H_handle_tcp_responses_break(k)
  \/ \E k \in Socks : H_handle_tcp_responses_finally(k)

ThreadedSpec == ThreadedInit /\ [][ThreadedNext]_vars

\* ------------------------------------------- callbacks of other senders
\* The callback server of the ingress takes a POST from whoever reaches its
\* port: one arrives that no response pump has sent (sock 0), for session
\* id sid, with a body that is not a valid envelope.
ForeignCallback(sid, body) ==
  /\ Events < MaxEvents
  /\ Cardinality({m \in toIngress : m.sock = 0}) < MaxForeign
  /\ toIngress' = toIngress \cup
       {[sid |-> sid, sock |-> 0, data |-> NoData, st |-> "sent", body |-> body]}
  /\ UNCHANGED <<appVars, ingVars, toEgress, faults, egrVars, unitVars, sockVars>>

\* The ingress of src/client with the http_to_tcp egress, its callback
\* server open to other senders; no request is lost and no dial refused.
CallbackInit == Init /\ impl = "http_to_tcp"

CallbackNext ==
  \/ \E c \in Conns : ClientWrite(c)
  \/ \E c \in Conns, how \in {"fin", "rst"} : ClientClose(c, how)
  \/ \E k \in Socks : TargetWrite(k)
  \/ \E k \in Socks : TargetClose(k)
  \/ \E sid \in Ports, body \in Bodies \ {"valid"} : ForeignCallback(sid, body)
  \/ \E c \in Conns, port \in NextPorts : handle_new_client(c, port)
  \/ \E c \in Conns : initialize_session_returns(c)
  \/ \E c \in Conns : read_chunk(c)
  \/ \E c \in Conns : forward_to_http_returns(c)
  \/ \E c \in Conns : read_loop_exit(c)
  \/ \E c \in Conns : send_close_event_returns(c)
  \/ \E m \in toIngress : handle_http_response(m)
  \/ \E m \in toEgress : H_do_PUT(m) /\ faults' = faults
  \/ \E m \in toEgress : H_do_POST(m)
  \/ H_forward_to_tcp_lookup
  \/ H_forward_to_tcp_sendall
  \/ \E m \in toEgress : H_do_DELETE_close(m)
  \/ H_do_DELETE_remove
  \/ \E k \in Socks : H_handle_tcp_responses_start(k)
  \/ \E k \in Socks : H_handle_tcp_responses_recv(k)
  \/ \E k \in Socks : H_handle_tcp_responses_post(k)
  \/ \E k \in Socks : H_handle_tcp_responses_posted(k)
  \/ \E k \in Socks : H_handle_tcp_responses_break(k)
  \/ \E k \in Socks : H_handle_tcp_responses_finally(k)

CallbackSpec == CallbackInit /\ [][CallbackNext]_vars

\* ------------------------------------------ data POSTs of other senders
\* do_POST of both egress programs, its second line: the session id is the
\* Session-ID header, and without one the port of the HTTP client's
\* address (header 0: the request has no such header).
do_POST_session_id(header, client_address) ==
  IF header = 0 THEN client_address[2] ELSE header

\* The payload of a POST that is not the ingress's: chunk n of sender 0.
ForeignData(n) == <<0, n>>

\* The HTTP port of the egress takes a POST from whoever reaches it: one
\* arrives from an HTTP client at <<host 0, port>> that is no connection
\* of the ingress (conn 0), with data, a Response-Port header and no
\* Session-ID header.  It is kept under the id do_POST will use for it.
HeaderlessPost(port) ==
  /\ Events < MaxEvents
  /\ Cardinality({m \in toEgress : m.conn = 0}) < MaxForeign
  /\ toEgress' = toEgress \cup
       {Req("POST", do_POST_session_id(0, <<0, port>>), 0, ForeignData(1))}
  /\ UNCHANGED <<appVars, ingVars, toIngress, faults, egrVars, unitVars, sockVars>>

\* Ingress and egress (either program) with the egress's HTTP port open to
\* other senders; no request is lost and no dial refused, and clients end
\* their connections in order.
HeaderNext ==
  \/ \E c \in Conns : ClientWrite(c)
  \/ \E c \in Conns : ClientClose(c, "fin")
  \/ \E k \in Socks : TargetWrite(k)
  \/ \E k \in Socks : TargetClose(k)
  \/ \E port \in Ports : HeaderlessPost(port)
  \/ \E c \in Conns, port \in NextPorts : handle_new_client(c, port)
  \/ \E c \in Conns : initialize_session_returns(c)
  \/ \E c \in Conns : read_chunk(c)
  \/ \E c \in Conns : forward_to_http_returns(c)
  \/ \E c \in Conns : read_loop_exit(c)
  \/ \E c \in Conns : send_close_event_returns(c)
  \/ \E m \in toIngress : handle_http_response(m)
  \/ \E m \in toEgress : H_do_PUT(m) /\ faults' = faults
  \/ \E m \in toEgress : H_do_POST(m)
  \/ H_forward_to_tcp_lookup
  \/ H_forward_to_tcp_sendall
  \/ \E m \in toEgress : H_do_DELETE_close(m)
  \/ H_do_DELETE_remove
  \/ \E k \in Socks : H_handle_tcp_responses_start(k)
  \/ \E k \in Socks : H_handle_tcp_responses_recv(k)
  \/ \E k \in Socks : H_handle_tcp_responses_post(k)
  \/ \E k \in Socks : H_handle_tcp_responses_posted(k)
  \/ \E k \in Socks : H_handle_tcp_responses_break(k)
  \/ \E k \in Socks : H_handle_tcp_responses_finally(k)
  \/ \E m \in toEgress : S_do_PUT(m)
  \/ \E m \in toEgress : S_ensure_tcp_connection(m) /\ faults' = faults
  \/ \E m \in toEgress : S_do_POST(m)
  \/ \E m \in toEgress : S_do_DELETE(m)
  \/ \E k \in Socks : S_handle_tcp_responses_start(k)
  \/ \E k \in Socks : S_handle_tcp_responses_recv(k)
  \/ \E k \in Socks : S_handle_tcp_responses_posted(k)
  \/ \E k \in Socks : S_handle_tcp_responses_break(k)
  \/ \E k \in Socks : S_handle_tcp_responses_finally(k)
  \/ \E k \in Socks : S_handle_tcp_responses_cleanup(k)

HeaderSpec == Init /\ [][HeaderNext]_vars

\* ------------------------------------- sessions that end, egress reachable
\* The ingress of src/client with the http_to_tcp egress when the egress is
\* reachable and the target accepts: no request is lost and no dial is
\* refused; clients and target write and close as they like.
FairInit == Init /\ impl = "http_to_tcp"

FairNext ==
  \/ \E c \in Conns : ClientWrite(c)
  \/ \E c \in Conns, how \in {"fin", "rst"} : ClientClose(c, how)
  \/ \E k \in Socks : TargetWrite(k)
  \/ \E k \in Socks : TargetClose(k)
  \/ \E c \in Conns, port \in NextPorts : handle_new_client(c, port)
  \/ \E c \in Conns : initialize_session_returns(c)
  \/ \E c \in Conns : read_chunk(c)
  \/ \E c \in Conns : forward_to_http_returns(c)
  \/ \E c \in Conns : read_loop_exit(c)
  \/ \E c \in Conns : send_close_event_returns(c)
  \/ \E m \in toIngress : handle_http_response(m)
  \/ \E m \in toEgress : H_do_PUT(m) /\ faults' = faults
  \/ \E m \in toEgress : H_do_POST(m)
  \/ H_forward_to_tcp_lookup
  \/ H_forward_to_tcp_sendall
  \/ \E m \in toEgress : H_do_DELETE_close(m)
  \/ H_do_DELETE_remove
  \/ \E k \in Socks : H_handle_tcp_responses_start(k)
  \/ \E k \in Socks : H_handle_tcp_responses_recv(k)
  \/ \E k \in Socks : H_handle_tcp_responses_post(k)
  \/ \E k \in Socks : H_handle_tcp_responses_posted(k)
  \/ \E k \in Socks : H_handle_tcp_responses_break(k)
  \/ \E k \in Socks : H_handle_tcp_responses_finally(k)

\* Scheduling: the event loops run every task that is ready, the operating
\* system every thread that is ready.  Nothing is assumed of clients and
\* target, nor of when a connection is accepted.
Fairness ==
  /\ \A c \in Conns :
       WF_vars(\/ initialize_session_returns(c)
               \/ read_chunk(c)
               \/ forward_to_http_returns(c)
               \/ read_loop_exit(c)
               \/ send_close_event_returns(c))
  /\ WF_vars(\E m \in toIngress : handle_http_response(m))
  /\ WF_vars(\/ \E m \in toEgress : H_do_PUT(m) /\ faults' = faults
             \/ \E m \in toEgress : H_do_POST(m)
             \/ H_forward_to_tcp_lookup
             \/ H_forward_to_tcp_sendall
             \/ \E m \in toEgress : H_do_DELETE_close(m)
             \/ H_do_DELETE_remove)
  /\ \A k \in Socks :
       WF_vars(\/ H_handle_tcp_responses_start(k)
               \/ H_handle_tcp_responses_recv(k)
               \/ H_handle_tcp_responses_post(k)
               \/ H_handle_tcp_responses_posted(k)
               \/ H_handle_tcp_responses_break(k)
               \/ H_handle_tcp_responses_finally(k))

FairSpec == FairInit /\ [][FairNext]_vars /\ Fairness

\* --------------------------------------------------- the egress shuts down
\* The ingress of src/client with either egress when the egress process is
\* interrupted while sessions are live.  hpc also holds the position of the
\* egress main routine: "idle" while it serves, "cleanup" while
\* TcpServer.cleanup_connections runs, "exited" once the cleanup has
\* returned.  No request is lost and no dial is refused.

\* http_to_tcp.py cleanup_connections, called from the finally of
\* HttpToTcp.start: under the lock every registered socket is closed and
\* both maps are cleared.  The pump threads are daemon threads; they are
\* neither signalled nor joined.
H_cleanup_connections ==
  /\ impl = "http_to_tcp" /\ hpc = "idle" /\ LockFree
  /\ sockState' = [k \in Socks |->
                     IF \E sid \in Ports : tcp_connections[sid] = k
                     THEN "closed" ELSE sockState[k]]
  /\ tcp_connections' = [sid \in Ports |-> 0]
  /\ response_endpoints' = [sid \in Ports |-> "none"]
  /\ hpc' = "exited"
  /\ UNCHANGED <<appVars, ingVars, netVars, impl, unitVars, connection_lock, hsock,
                 nsocks, sockSid, sockWritten, sockWriter, tgtSent, tgtFin,
                 pumpRead, ppc>>

\* server/main.py start_server, finally: runner.cleanup() lets the handlers
\* in progress finish and stops the HTTP front end; cleanup_connections
\* then takes its list of the keys of tcp_connections under the lock.
S_start_server_finally ==
  /\ impl = "tcp_server" /\ hpc = "idle" /\ LockFree
  /\ hpc' = "cleanup"
  /\ UNCHANGED <<appVars, ingVars, netVars, impl, unitVars, tcp_connections,
                 response_endpoints, connection_lock, hsock, sockVars>>

\* cleanup_connections, one turn of its loop: close_session_components
\* (session_id) with originating_task_cancelled = False takes the lock,
\* pops the entry, closes the writer and awaits wait_closed.  hsock is the
\* connection being closed.  With the front end stopped no key is added
\* after the list was taken, and a key a pump has removed since has nothing
\* left to close.
S_cleanup_connections_close(sid) ==
  /\ impl = "tcp_server" /\ hpc = "cleanup" /\ LockFree
  /\ tcp_connections[sid] # 0
  /\ connection_lock' = <<"csc", sid>>
  /\ hsock' = tcp_connections[sid]
  /\ hpc' = "closing"
  /\ sockState' = [sockState EXCEPT ![tcp_connections[sid]] = "closed"]
  /\ tcp_connections' = [tcp_connections EXCEPT ![sid] = 0]
  /\ UNCHANGED <<appVars, ingVars, netVars, impl, unitVars, response_endpoints,
                 nsocks, sockSid, sockWritten, sockWriter, tgtSent, tgtFin,
                 pumpRead, ppc>>

\* close_session_components, still under the lock: task.cancel() and
\* asyncio.wait_for(task, 5.0), unless the task is done.  A pump that was
\* reading has been woken by the close before the closer is, has run into
\* its finally and waits for the lock.  The CancelledError ends a pump
\* that waits for the lock; in a pump that awaits its callback POST it is
\* caught by no except clause and runs the finally, whose
\* close_session_components waits for the lock.
S_close_session_components_cancel ==
  /\ impl = "tcp_server" /\ hpc = "closing"
  /\ ppc[hsock] \in {"none", "done", "start", "post", "csc"}
  /\ ppc' = [ppc EXCEPT ![hsock] =
               IF @ \in {"start", "csc"} THEN "done"
               ELSE IF @ = "post" THEN "csc" ELSE @]
  /\ hpc' = "waiting"
  /\ UNCHANGED <<appVars, ingVars, netVars, impl, unitVars, tcp_connections,
                 response_endpoints, connection_lock, hsock, nsocks, sockSid,
                 sockState, sockWritten, sockWriter, tgtSent, tgtFin, pumpRead>>

\* wait_for gives up after its timeout: it cancels the task once more, which
\* ends the pump in its wait for the lock, and raises TimeoutError.
S_close_session_components_timeout ==
  /\ impl = "tcp_server" /\ hpc = "waiting" /\ ppc[hsock] = "csc"
  /\ ppc' = [ppc EXCEPT ![hsock] = "done"]
  /\ UNCHANGED <<appVars, ingVars, netVars, egrVars, unitVars, nsocks, sockSid,
                 sockState, sockWritten, sockWriter, tgtSent, tgtFin, pumpRead>>

\* close_session_components, the task awaited: the endpoint is deleted and
\* the lock released; cleanup_connections goes on with its list.
S_close_session_components_returns ==
  /\ impl = "tcp_server" /\ hpc = "waiting" /\ ppc[hsock] \in {"none", "done"}
  /\ response_endpoints' = [response_endpoints EXCEPT ![connection_lock[2]] = "none"]
  /\ connection_lock' = <<"free", 0>>
  /\ hpc' = "cleanup" /\ hsock' = 0
  /\ UNCHANGED <<appVars, ingVars, netVars, impl, unitVars, tcp_connections,
                 sockVars>>

\* cleanup_connections returns: every key of its list has been handled.
S_cleanup_connections_returns ==
  /\ impl = "tcp_server" /\ hpc = "cleanup"
  /\ \A sid \in Ports : tcp_connections[sid] = 0
  /\ hpc' = "exited"
  /\ UNCHANGED <<appVars, ingVars, netVars, impl, unitVars, tcp_connections,
                 response_endpoints, connection_lock, hsock, sockVars>>

ShutdownNext ==
  \/ \E c \in Conns : ClientWrite(c)
  \/ \E c \in Conns : ClientClose(c, "fin")
  \/ \E k \in Socks : TargetWrite(k)
  \/ \E k \in Socks : TargetClose(k)
  \/ \E c \in Conns, port \in NextPorts : handle_new_client(c, port)
  \/ \E c \in Conns : initialize_session_returns(c)
  \/ \E c \in Conns : read_chunk(c)
  \/ \E c \in Conns : forward_to_http_returns(c)
  \/ \E c \in Conns : read_loop_exit(c)
  \/ \E c \in Conns : send_close_event_returns(c)
  \/ \E m \in toIngress : handle_http_response(m)
  \/ \E m \in toEgress : H_do_PUT(m) /\ faults' = faults
  \/ \E m \in toEgress : H_do_POST(m)
  \/ H_forward_to_tcp_lookup
  \/ H_forward_to_tcp_sendall
  \/ \E m \in toEgress : H_do_DELETE_close(m)
  \/ H_do_DELETE_remove
  \/ \E k \in Socks : H_handle_tcp_responses_start(k)
  \/ \E k \in Socks : H_handle_tcp_responses_recv(k)
  \/ \E k \in Socks : H_handle_tcp_responses_post(k)
  \/ \E k \in Socks : H_handle_tcp_responses_posted(k)
  \/ \E k \in Socks : H_handle_tcp_responses_break(k)
  \/ \E k \in Socks : H_handle_tcp_responses_finally(k)
  \/ H_cleanup_connections
  \/ \E m \in toEgress : S_do_PUT(m) /\ hpc = "idle"
  \/ \E m \in toEgress : S_ensure_tcp_connection(m) /\ faults' = faults
  \/ \E m \in toEgress : S_do_POST(m) /\ hpc = "idle"
  \/ \E m \in toEgress : S_do_DELETE(m) /\ hpc = "idle"
  \/ \E k \in Socks : S_handle_tcp_responses_start(k)
  \/ \E k \in Socks : S_handle_tcp_responses_recv(k)
  \/ \E k \in Socks : S_handle_tcp_responses_posted(k)
  \/ \E k \in Socks : S_handle_tcp_responses_break(k)
  \/ \E k \in Socks : S_handle_tcp_responses_finally(k)
  \/ \E k \in Socks : S_handle_tcp_responses_cleanup(k)
  \/ S_start_server_finally
  \/ \E sid \in Ports : S_cleanup_connections_close(sid)
  \/ S_close_session_components_cancel
  \/ S_close_session_components_timeout
  \/ S_close_session_components_returns
  \/ S_cleanup_connections_returns

ShutdownSpec == Init /\ [][ShutdownNext]_vars

\* ------------------------------------------------- the adaptive read size
\* The two read loops on their own: each read returns between one byte and
\* the size asked for (an empty read ends the loop), and the size of the
\* next read is adapted to it.

Min(a, b) == IF a <= b THEN a ELSE b
Max(a, b) == IF a >= b THEN a ELSE b

\* Lengths a read of up to size bytes is tried with: the least, the ones
\* around the shrinking point, half, one short of full, and full.
ReadLengths(size) ==
  {n \in {1, size \div (BUFFER_GROWTH_FACTOR * 2) - 1,
          size \div (BUFFER_GROWTH_FACTOR * 2), size \div 2, size - 1, size} :
     n >= 1 /\ n <= size}

\* A rule that grows at once: a read of half the size asked for doubles it.
handle_tcp_client_adapt_eager(current, received) ==
  IF received >= current \div 2 /\ current < MAX_BUFFER_SIZE
  THEN Min(current * BUFFER_GROWTH_FACTOR, MAX_BUFFER_SIZE)
  ELSE current

\* tcp_client.py 55-59: doubled, up to the maximum, by a read that filled
\* the buffer; halved, down to the initial size, by a read of less than a
\* quarter of it.
handle_tcp_client_adapt(current, received) ==
  IF received = current /\ current < MAX_BUFFER_SIZE
  THEN Min(current * BUFFER_GROWTH_FACTOR, MAX_BUFFER_SIZE)
  ELSE IF /\ received < current \div (BUFFER_GROWTH_FACTOR * 2)
          /\ current > INITIAL_BUFFER_SIZE
  THEN Max(current \div BUFFER_GROWTH_FACTOR, INITIAL_BUFFER_SIZE)
  ELSE current

\* A rule that shrinks too soon: a read of less than half the size asked
\* for halves it.
S_handle_tcp_responses_adapt_hasty(current, received) ==
  IF received = current /\ current < MAX_BUFFER_SIZE
  THEN Min(current * BUFFER_GROWTH_FACTOR, MAX_BUFFER_SIZE)
  ELSE IF /\ received < current \div BUFFER_GROWTH_FACTOR
          /\ current > INITIAL_BUFFER_SIZE
  THEN Max(current \div BUFFER_GROWTH_FACTOR, INITIAL_BUFFER_SIZE)
  ELSE current

\* tcp_server.py 79-82: the same rule in the egress loop.
S_handle_tcp_responses_adapt(current, received) ==
  IF received = current /\ current < MAX_BUFFER_SIZE
  THEN Min(current * BUFFER_GROWTH_FACTOR, MAX_BUFFER_SIZE)
  ELSE IF /\ received < current \div (BUFFER_GROWTH_FACTOR * 2)
          /\ current > INITIAL_BUFFER_SIZE
  THEN Max(current \div BUFFER_GROWTH_FACTOR, INITIAL_BUFFER_SIZE)
  ELSE current

\* One turn of the ingress read loop: reader.read(current_buffer_size)
\* returned n bytes.
handle_tcp_client_read(n) ==
  /\ n \in ReadLengths(current_buffer_size["handle_tcp_client"])
  /\ received_length' = [received_length EXCEPT !["handle_tcp_client"] = n]
  /\ current_buffer_size' =
       [current_buffer_size EXCEPT !["handle_tcp_client"] =
          handle_tcp_client_adapt(@, n)]
  /\ UNCHANGED <<appVars, ingVars, netVars, egrVars, sockVars, sent_data, request,
                 decoded_data>>

\* One turn of the egress read loop.
S_handle_tcp_responses_read(n) ==
  /\ n \in ReadLengths(current_buffer_size["handle_tcp_responses"])
  /\ received_length' = [received_length EXCEPT !["handle_tcp_responses"] = n]
  /\ current_buffer_size' =
       [current_buffer_size EXCEPT !["handle_tcp_responses"] =
          S_handle_tcp_responses_adapt(@, n)]
  /\ UNCHANGED <<appVars, ingVars, netVars, egrVars, sockVars, sent_data, request,
                 decoded_data>>

BufferNext ==
  \/ \E n \in ReadLengths(current_buffer_size["handle_tcp_client"]) :
       handle_tcp_client_read(n)
  \/ \E n \in ReadLengths(current_buffer_size["handle_tcp_responses"]) :
       S_handle_tcp_responses_read(n)

BufferSpec == Init /\ [][BufferNext]_vars

\* ------------------------------------------------------------ the envelope
\* One payload through the envelope: a sender makes a POST of the bytes it
\* read, a receiver of the same direction decodes the POST.  gzip.compress
\* puts a gzip layer around its argument, gzip.decompress takes one off and
\* raises on bytes that have none; b64encode makes a text of bytes and
\* b64decode gives the bytes of a text b64encode made.

gzip_compress(b) == [b EXCEPT !.gz = @ + 1]
gzip_decompress(b) == [b EXCEPT !.gz = @ - 1]
BadGzipFile(b) == b.gz = 0
b64encode(b) == [b64 |-> b]
b64decode(text) == text.b64

\* Lengths and byte values payloads are tried with: around the compression
\* threshold and beyond it.
PayloadLengths == {1, 2, GZIP_THRESHOLD_BYTES - 1, GZIP_THRESHOLD_BYTES,
                   GZIP_THRESHOLD_BYTES + 1, 2 * GZIP_THRESHOLD_BYTES}
PayloadBytes == {0, 255}
Payloads(maxlen) ==
  {Bytes(Run(n, v)) : n \in {l \in PayloadLengths : l <= maxlen},
                               v \in PayloadBytes}

\* Senders and receivers of the two directions.
UpSenders == {"forward_to_http", "T_forward_to_http"}
DownSenders == {"S_handle_tcp_responses", "H_handle_tcp_responses"}

\* A sender that compresses from the threshold on, not above it.
GzipEnvelope_inclusive(sender, d, GZIP_ENABLED) ==
  IF GZIP_ENABLED /\ d.raw.len >= GZIP_THRESHOLD_BYTES
  THEN [from |-> sender, body |-> b64encode(gzip_compress(d)), encoding |-> "gzip",
        enabled |-> GZIP_ENABLED]
  ELSE [from |-> sender, body |-> b64encode(d), encoding |-> "none",
        enabled |-> GZIP_ENABLED]

\* The POST of a sender that compresses: tcp_client.py forward_to_http and
\* tcp_server.py handle_tcp_responses compress a payload longer than the
\* threshold when GZIP_ENABLED, and say so in X-Content-Encoding.
GzipEnvelope(sender, d, GZIP_ENABLED) ==
  IF GZIP_ENABLED /\ d.raw.len > GZIP_THRESHOLD_BYTES
  THEN [from |-> sender, body |-> b64encode(gzip_compress(d)), encoding |-> "gzip",
        enabled |-> GZIP_ENABLED]
  ELSE [from |-> sender, body |-> b64encode(d), encoding |-> "none",
        enabled |-> GZIP_ENABLED]

\* The POST of a sender that only base64-encodes.
PlainEnvelope(sender, d) ==
  [from |-> sender, body |-> b64encode(d), encoding |-> "none", enabled |-> FALSE]

\* What a receiver that honours X-Content-Encoding makes of a POST.
GzipDecode(receiver, req) ==
  IF req.encoding = "gzip"
  THEN IF BadGzipFile(b64decode(req.body))
       THEN [by |-> receiver, status |-> "400", bytes |-> Bytes(Run(0, 0))]
       ELSE [by |-> receiver, status |-> "ok",
             bytes |-> gzip_decompress(b64decode(req.body))]
  ELSE [by |-> receiver, status |-> "ok", bytes |-> b64decode(req.body)]

\* What a receiver that only base64-decodes makes of it.
PlainDecode(receiver, req) ==
  [by |-> receiver, status |-> "ok", bytes |-> b64decode(req.body)]

Sends(req) ==
  /\ request = NoRequest
  /\ request' = req
  /\ UNCHANGED <<appVars, ingVars, netVars, egrVars, sockVars,
                 current_buffer_size, received_length, decoded_data>>

Receives(delivery) ==
  /\ decoded_data = NoDelivery
  /\ decoded_data' = delivery
  /\ UNCHANGED <<appVars, ingVars, netVars, egrVars, sockVars,
                 current_buffer_size, received_length, sent_data, request>>

\* tcp_client.py forward_to_http: a read of the adaptive loop, of up to
\* MAX_BUFFER_SIZE bytes.
forward_to_http_encodes(d, GZIP_ENABLED) ==
  /\ sent_data' = d
  /\ Sends(GzipEnvelope("forward_to_http", d, GZIP_ENABLED))

\* tcp_to_http.py forward_to_http: a recv(1024).
T_forward_to_http_encodes(d) ==
  /\ sent_data' = d
  /\ Sends(PlainEnvelope("T_forward_to_http", d))

\* tcp_server.py handle_tcp_responses: a read of the adaptive loop.
S_handle_tcp_responses_encodes(d, GZIP_ENABLED) ==
  /\ sent_data' = d
  /\ Sends(GzipEnvelope("S_handle_tcp_responses", d, GZIP_ENABLED))

\* http_to_tcp.py handle_tcp_responses: a recv(1024).
H_handle_tcp_responses_encodes(d) ==
  /\ sent_data' = d
  /\ Sends(PlainEnvelope("H_handle_tcp_responses", d))

\* request_handler.py do_POST: b64decode, then gzip.decompress when the
\* header says gzip; an exception is answered 400.
S_do_POST_decodes ==
  /\ request.from \in UpSenders
  /\ Receives(GzipDecode("S_do_POST", request))

\* http_to_tcp.py do_POST: b64decode; X-Content-Encoding is not read.
H_do_POST_decodes ==
  /\ request.from \in UpSenders
  /\ Receives(PlainDecode("H_do_POST", request))

\* response_handler.py handle_http_response: b64decode, then
\* gzip.decompress when the header says gzip; BadGzipFile is answered 400.
handle_http_response_decodes ==
  /\ request.from \in DownSenders
  /\ Receives(GzipDecode("handle_http_response", request))

\* tcp_to_http.py ResponseHandler.do_POST: b64decode only.
T_ResponseHandler_do_POST_decodes ==
  /\ request.from \in DownSenders
  /\ Receives(PlainDecode("T_ResponseHandler_do_POST", request))

EnvelopeNext ==
  \/ \E d \in Payloads(MAX_BUFFER_SIZE), GZIP_ENABLED \in BOOLEAN :
       forward_to_http_encodes(d, GZIP_ENABLED)
  \/ \E d \in Payloads(1024) : T_forward_to_http_encodes(d)
  \/ \E d \in Payloads(MAX_BUFFER_SIZE), GZIP_ENABLED \in BOOLEAN :
       S_handle_tcp_responses_encodes(d, GZIP_ENABLED)
  \/ \E d \in Payloads(1024) : H_handle_tcp_responses_encodes(d)
  \/ S_do_POST_decodes
  \/ H_do_POST_decodes
  \/ handle_http_response_decodes
  \/ T_ResponseHandler_do_POST_decodes

EnvelopeSpec == Init /\ [][EnvelopeNext]_vars

\* =====================================================================
\* Properties
\* =====================================================================
\* The chunks of s whose first component is src, in order.
From(s, src) == SelectSeq(s, LAMBDA x : x[1] = src)

\* Connection c is open at the ingress: accepted, read loop not yet left.
IngressOpen(c) == ipc[c] \in {"put", "read", "post"}

\* C1: in each direction the chunks written to the destination socket of a
\* session are a prefix of the chunks read from its source socket: nothing
\* is reordered, duplicated or skipped.
C1_FifoPrefix ==
  /\ \A k \in Socks, c \in Conns :
       IsPrefix(From(sockWritten[k], c), Stream(c, ingRead[c]))
  /\ \A c \in Conns, k \in Socks :
       IsPrefix(From(appRecv[c], k), Stream(k, pumpRead[k]))

\* C2: every application connection has at most one data POST in flight to
\* the egress, and every response pump at most one callback POST in flight
\* to the ingress.
C2_OnePostInFlight ==
  /\ \A c \in Conns :
       Cardinality({m \in toEgress : m.kind = "POST" /\ m.conn = c}) <= 1
  /\ \A k \in Socks :
       Cardinality({m \in toIngress : m.sock = k}) <= 1

\* Witness of C2: the second POST of a connection is in flight (its first
\* one is over) while a POST of another session (a pump's callback) is too.
C2_Witness ==
  /\ \E m \in toEgress : m.kind = "POST" /\ m.data[2] = 2 /\ m.st = "sent"
  /\ \E m \in toIngress : m.st = "sent"

\* C3: what is read from the application connection of one session is never
\* written to the target connection of another, and what is read from a
\* target connection only reaches the application socket it was dialled for.
C3_Isolation ==
  /\ \A k \in Socks : \A i \in 1..Len(sockWritten[k]) :
       sockWritten[k][i][1] = sockWriter[k]
  /\ \A c \in Conns : \A i \in 1..Len(appRecv[c]) :
       sockWriter[appRecv[c][i][1]] = c

\* C4: two application connections open at the ingress at the same time
\* have different session ids.
C4_UniqueSessionIds ==
  \A c, d \in Conns :
    c # d /\ IngressOpen(c) /\ IngressOpen(d) => session_id[c] # session_id[d]

\* C5: with no failures and fair scheduling, every chunk a client writes is
\* eventually written to the target connection dialled for its connection,
\* and every chunk the target writes on that connection is eventually
\* written to that client's application socket.
C5_EchoRoundTrip ==
  /\ \A c \in Conns, n \in 1..MaxChunks :
       (appSent[c] >= n)
         ~> (\E k \in Socks :
               /\ sockWriter[k] = c
               /\ \E i \in 1..Len(sockWritten[k]) : sockWritten[k][i] = <<c, n>>)
  /\ \A k \in Socks, n \in 1..MaxReplies :
       (tgtSent[k] >= n)
         ~> (/\ sockWriter[k] # 0
             /\ \E i \in 1..Len(appRecv[sockWriter[k]]) :
                  appRecv[sockWriter[k]][i] = <<k, n>>)

\* C6: after a failed session-init PUT the ingress sends no data POST for
\* that connection.
C6_FailedPutSendsNoPost ==
  \A m \in toEgress : m.kind = "POST" => put_result[m.conn] # "failed"

\* C7: while the PUT of an accepted connection is under way, the ingress
\* registry already holds the connection's writer under its session id.
C7_RegisteredBeforePut ==
  \A m \in toEgress : m.kind = "PUT" => active_client_writers[m.sid] = m.conn

\* C8: a target connection appears in the egress registry only in a step
\* that completes a PUT for that id with the callback endpoint recorded; a
\* step that handles a data POST adds no target connection.
C8_OnlyPutOpens ==
  [][\A sid \in Ports :
       tcp_connections'[sid] # 0 /\ tcp_connections'[sid] # tcp_connections[sid]
       => /\ response_endpoints'[sid] # "none"
          /\ \E m \in toEgress :
               /\ m.kind = "PUT" /\ m.sid = sid /\ m.st \in {"sent", "dial"}
               /\ [m EXCEPT !.st = "200"] \in toEgress'
          /\ \A m \in toEgress : m.kind = "POST" => m \in toEgress']_vars

\* Witness of C8: one session is open at the egress while a data POST for
\* an id that has no target connection has been refused.
C8_Witness ==
  /\ \E sid \in Ports : tcp_connections[sid] # 0
  /\ \E m \in toEgress :
       m.kind = "POST" /\ m.st = "400" /\ tcp_connections[m.sid] = 0

\* C9: a socket found in a registry is open: every teardown unlinks the
\* session before the relay closes its socket.
C9_RemovedBeforeClosed ==
  /\ \A sid \in Ports :
       tcp_connections[sid] # 0 => sockState[tcp_connections[sid]] = "open"
  /\ \A sid \in Ports :
       LET c == active_client_writers[sid] IN
         c # 0 /\ is_closing[c] => appEnd[c] = "rst"

\* C10: a chunk is written to a socket only while the registry still maps
\* the session to that socket.
C10_NoWriteAfterRemoval ==
  [][/\ \A k \in Socks :
          sockWritten'[k] # sockWritten[k] => tcp_connections[sockSid[k]] = k
     /\ \A c \in Conns :
          appRecv'[c] # appRecv[c] => active_client_writers[session_id[c]] = c]_vars

\* Witness of C10: a data POST found its session registered and took the
\* socket; before its sendall the response thread closed the socket and
\* removed the session, so the handler holds a socket no longer registered.
C10_Witness ==
  /\ hpc = "send"
  /\ tcp_connections[Handling.sid] = 0 /\ sockState[hsock] = "closed"

\* The DELETE requests of connection c that are in flight or answered.
DeletesOf(c) == {m \in toEgress : m.kind = "DELETE" /\ m.conn = c}

\* C11: when the read loop of a connection has exited, its entry is out of
\* the registry before the relay closes the socket, both are done before the
\* DELETE is sent, and there is one DELETE, none once it is over.
C11_TeardownOrder ==
  \A c \in Conns :
    /\ Cardinality(DeletesOf(c)) <= 1
    /\ DeletesOf(c) # {} =>
         /\ ipc[c] = "delete" /\ is_closing[c]
         /\ active_client_writers[session_id[c]] # c
    /\ is_closing[c] /\ appEnd[c] # "rst" =>
         active_client_writers[session_id[c]] # c
    /\ ipc[c] = "done" => DeletesOf(c) = {}

\* Request m, waiting at the egress, is taken up by the egress in this step.
Handled(m) ==
  /\ m \in toEgress /\ m.st = "sent"
  /\ m \notin toEgress' /\ [m EXCEPT !.st = "lost"] \notin toEgress'

C13_FailedDialLeavesNothing ==
  [][\A m \in toEgress :
       /\ m.kind = "PUT" /\ m.st \in {"sent", "dial"}
       /\ [m EXCEPT !.st = "500"] \in toEgress'
       => /\ tcp_connections'[m.sid] = 0
          /\ response_endpoints'[m.sid] = "none"
          /\ nsocks' = nsocks /\ ppc' = ppc]_vars

\* C14: a step that handles a data POST for a session id without target
\* connection answers 400 and writes nothing to any target connection.
C14_UnknownSessionPost ==
  [][\A m \in toEgress :
       m.kind = "POST" /\ Handled(m) /\ tcp_connections[m.sid] = 0
       => /\ [m EXCEPT !.st = "400"] \in toEgress'
          /\ sockWritten' = sockWritten]_vars

\* Witness of C14: a data POST was answered 400 for a session whose target
\* connection the egress had closed before, and that connection got nothing.
C14_Witness ==
  \E m \in toEgress :
    /\ m.kind = "POST" /\ m.st = "400"
    /\ \E k \in Socks :
         sockSid[k] = m.sid /\ sockState[k] = "closed" /\ sockWritten[k] = <<>>

\* C15: the step that answers a DELETE for session id s leaves the egress
\* without target connection and callback endpoint for s and with the
\* target connection of s closed; and once a DELETE for s has been answered,
\* the pump of the connection it closed sends no callback POST any more.
C15_DeleteEndsSession ==
  [][/\ \A m \in toEgress :
          /\ m.kind = "DELETE" /\ m.st \in {"sent", "handling"}
          /\ [m EXCEPT !.st = "200"] \in toEgress'
          => /\ tcp_connections'[m.sid] = 0
             /\ response_endpoints'[m.sid] = "none"
             /\ tcp_connections[m.sid] # 0
                  => sockState'[tcp_connections[m.sid]] = "closed"
     /\ \A m \in toEgress :
          m.kind = "DELETE" /\ m.st = "200"
          => \A k \in Socks :
               sockSid[k] = m.sid /\ sockState[k] = "closed"
               => {cb.data : cb \in {x \in toIngress' : x.sock = k}}
                    \subseteq {cb.data : cb \in {x \in toIngress : x.sock = k}}]_vars

\* C16: a DELETE is never answered with anything but 200; one that finds no
\* entry of its session id in the egress maps changes neither the maps nor
\* any target connection nor any pump; and every answered DELETE leaves its
\* session id without entries, so that a second DELETE in a row finds the
\* state the first one left and keeps it.
C16_DeleteIdempotent ==
  [][/\ \A x \in toEgress' :
          x.kind = "DELETE" => x.st \in {"sent", "handling", "200", "lost"}
     /\ \A m \in toEgress :
          /\ m.kind = "DELETE" /\ m.st \in {"sent", "handling"}
          /\ m \notin toEgress' /\ [m EXCEPT !.st = "lost"] \notin toEgress'
          /\ tcp_connections[m.sid] = 0 /\ response_endpoints[m.sid] = "none"
          => /\ \/ [m EXCEPT !.st = "200"] \in toEgress'
                \/ [m EXCEPT !.st = "handling"] \in toEgress'
             /\ tcp_connections' = tcp_connections
             /\ response_endpoints' = response_endpoints
             /\ sockState' = sockState /\ nsocks' = nsocks /\ ppc' = ppc
     /\ \A m \in toEgress :
          /\ m.kind = "DELETE" /\ m.st \in {"sent", "handling"}
          /\ [m EXCEPT !.st = "200"] \in toEgress'
          => tcp_connections'[m.sid] = 0 /\ response_endpoints'[m.sid] = "none"]_vars

\* Witness of C16: a second DELETE for a session id whose first DELETE has
\* been answered is being handled, and finds no entry of that id.
C16_Witness ==
  \E m, n \in toEgress :
    /\ m.kind = "DELETE" /\ n.kind = "DELETE" /\ m.sid = n.sid /\ m.conn # n.conn
    /\ n.st = "200" /\ m.st = "handling"
    /\ tcp_connections[m.sid] = 0 /\ response_endpoints[m.sid] = "none"

\* C17: when the response pump of a target connection learns that its
\* callback POST failed (a status of 400 and above, or no answer at all), it
\* leaves its loop, so it sends no further POST; and when a pump that left
\* its loop for that reason (the target has not closed and the session still
\* maps to the pump's connection) finishes, its target connection is closed
\* and the session has lost its entries in the egress maps.
C17_FailedCallbackEndsPump ==
  [][/\ \A m \in toIngress :
          Raises(m) /\ m \notin toIngress'
          => ppc'[m.sock] \notin {"recv", "got", "post"}
     /\ \A k \in Socks :
          /\ ppc[k] \in {"fin", "csc"} /\ ppc'[k] = "done"
          /\ ~tgtFin[k] /\ tcp_connections[sockSid[k]] = k
          => /\ sockState'[k] = "closed"
             /\ tcp_connections'[sockSid[k]] # k
             /\ tcp_connections'[sockSid[k]] = 0
                  => response_endpoints'[sockSid[k]] = "none"]_vars

\* C18: when the target has closed its connection and the pump has read
\* everything up to the end of the stream, the pump does not go on reading;
\* and when it finishes, with no DELETE needed, the target connection is
\* closed and the session has neither a target connection nor a callback
\* endpoint in the egress maps.
C18_TargetCloseDropsSession ==
  [][\A k \in Socks :
       tgtFin[k] /\ pumpRead[k] = tgtSent[k]
       => /\ ppc[k] = "recv" /\ ppc'[k] # "recv" => ppc'[k] = "fin"
          /\ ppc[k] \in {"fin", "csc"} /\ ppc'[k] = "done"
               => /\ sockState'[k] = "closed"
                  /\ tcp_connections'[sockSid[k]] # k
                  /\ tcp_connections'[sockSid[k]] = 0
                       => response_endpoints'[sockSid[k]] = "none"]_vars

\* C19: when forward_to_http learns that its data POST failed (a status of
\* 400 and above, or no answer at all), the connection's task does not go
\* back to reading the client: it leaves the read loop for its teardown, so
\* no later chunk of the client is forwarded.
C19_FailedPostEndsSession ==
  [][\A m \in toEgress :
       m.kind = "POST" /\ Raises(m) /\ m \notin toEgress'
       => ipc'[m.conn] # "read"]_vars

\* C20: a callback POST handled while the ingress registry has no entry for
\* its session id is answered 404, one handled while the registered writer
\* is closing is answered 410, and in both cases no byte is written to any
\* application connection.
C20_CallbackRefusals ==
  [][\A m \in toIngress :
       /\ m.st = "sent" /\ m \notin toIngress'
       /\ [m EXCEPT !.st = "lost"] \notin toIngress'
       => LET writer == active_client_writers[m.sid] IN
            /\ writer = 0
                 => [m EXCEPT !.st = "404"] \in toIngress' /\ appRecv' = appRecv
            /\ writer # 0 /\ is_closing[writer]
                 => [m EXCEPT !.st = "410"] \in toIngress' /\ appRecv' = appRecv]_vars

\* C21: a callback POST whose body is not valid base64, or which declares
\* gzip and whose body is not valid gzip, is answered 400 when it is
\* handled, and handling it writes nothing to any application socket and
\* leaves the ingress registry as it was.
C21_BadEnvelopeIs400 ==
  [][\A m \in toIngress :
       /\ m.st = "sent" /\ m.body # "valid"
       /\ m \notin toIngress' /\ [m EXCEPT !.st = "lost"] \notin toIngress'
       => /\ [m EXCEPT !.st = "400"] \in toIngress'
          /\ appRecv' = appRecv
          /\ active_client_writers' = active_client_writers]_vars

\* A write of a decoded callback payload on the application socket of c has
\* failed: a callback with a sound body was answered 500 and the writer its
\* session id maps to is closing.
WriteFailed(c) ==
  /\ is_closing[c]
  /\ \E m \in toIngress :
       m.st = "500" /\ Decode(m.body) = "ok" /\ active_client_writers[m.sid] = c

EgressOpen(sid) ==
  tcp_connections[sid] # 0 /\ sockState[tcp_connections[sid]] = "open"

\* The egress is tearing a session of id sid down: a DELETE for it is being
\* handled, or the pump of one of its target connections is on its way out
\* (the target has closed, or the pump has left its loop and not finished).
EgressTearingDown(sid) ==
  \/ \E m \in toEgress : m.kind = "DELETE" /\ m.sid = sid /\ m.st = "handling"
  \/ \E k \in Socks :
       /\ sockSid[k] = sid /\ ppc[k] \notin {"none", "done"}
       /\ tgtFin[k] \/ ppc[k] \in {"fin", "csc"}

\* C23: every connection the ingress holds as OPEN (its PUT answered 200,
\* its writer registered under its session id, its task in the read loop)
\* has an OPEN egress session with the same id (the map allows one at
\* most), unless the egress is tearing that session down.
C23_OpenHasPeer ==
  \A c \in Conns :
    /\ ipc[c] \in {"read", "post"} /\ put_result[c] = "ok"
    /\ active_client_writers[session_id[c]] = c
    => EgressOpen(session_id[c]) \/ EgressTearingDown(session_id[c])

\* No session is in progress: every accepted connection's task has
\* finished, at least one has, every pump that was started has finished, no
\* request is on its way or being handled.
Quiescent ==
  /\ \A c \in Conns : ipc[c] \in {"none", "done"}
  /\ \E c \in Conns : ipc[c] = "done"
  /\ \A k \in Socks : ppc[k] \in {"none", "done"}
  /\ \A m \in toEgress \cup toIngress : Settled(m)
  /\ hpc = "idle" /\ LockFree

\* C24: when sessions have run to completion and none is in progress, the
\* ingress registry, the egress map of target connections and the egress
\* map of callback endpoints are empty, and neither an application socket
\* nor a target connection of the tunnel is open.
C24_NothingLeftBehind ==
  Quiescent
  => /\ \A sid \in Ports : /\ active_client_writers[sid] = 0
                           /\ tcp_connections[sid] = 0
                           /\ response_endpoints[sid] = "none"
     /\ \A k \in Socks : sockState[k] # "open"
     /\ \A c \in Conns : ipc[c] = "done" => is_closing[c]

\* A client has closed its connection while its session, of id sid, is OPEN
\* on both sides: the PUT was answered 200, the task is in its read loop,
\* and the egress has a target connection for sid.
ClosedWhileOpen(sid) ==
  /\ tcp_connections[sid] # 0
  /\ \E c \in Conns :
       /\ session_id[c] = sid /\ appEnd[c] # "open"
       /\ put_result[c] = "ok" /\ ipc[c] \in {"read", "post"}

\* The egress has just answered the DELETE a closed client's connection sent
\* for session id sid.
DeleteAnswered(sid) ==
  \E m \in toEgress :
    /\ m.kind = "DELETE" /\ m.sid = sid /\ m.st = "200"
    /\ appEnd[m.conn] # "open"

\* C25: with the egress reachable and every task and thread scheduled
\* fairly, a client's close on an OPEN session leads to a state in which the
\* egress has answered the session's DELETE, has no target connection
\* registered for the session id, and has left no target connection of that
\* id open.
C25_ClientCloseReachesTarget ==
  \A sid \in Ports :
    ClosedWhileOpen(sid)
      ~> (/\ DeleteAnswered(sid)
          /\ tcp_connections[sid] = 0
          /\ \A k \in Socks : sockSid[k] = sid => sockState[k] # "open")

\* Witness of C25: the DELETE of a connection closed while OPEN has been
\* answered; the target connection its PUT dialled, which the target has not
\* closed, is closed and unregistered.
C25_Witness ==
  \E c \in Conns, k \in Socks :
    /\ appEnd[c] # "open" /\ put_result[c] = "ok" /\ sockWriter[k] = c
    /\ \E m \in toEgress : m.kind = "DELETE" /\ m.conn = c /\ m.st = "200"
    /\ sockState[k] = "closed" /\ tcp_connections[sockSid[k]] = 0
    /\ ~tgtFin[k]

\* The egress has shut down: its cleanup of connections has returned.
EgressStopped == hpc = "exited"

\* C26: once the shutdown cleanup of the egress has returned, both egress
\* maps are empty, no target connection is open and every response pump
\* that was started has terminated.
C26_ShutdownClosesEverySession ==
  EgressStopped
  => /\ \A sid \in Ports : /\ tcp_connections[sid] = 0
                           /\ response_endpoints[sid] = "none"
     /\ \A k \in Socks : sockState[k] # "open"
     /\ \A k \in Socks : ppc[k] \in {"none", "done"}

\* C27: in both read loops the read size stays between INITIAL_BUFFER_SIZE
\* and MAX_BUFFER_SIZE, and a read that returned fewer bytes than the size
\* asked for does not increase it.
C27_BufferSizeBounded ==
  /\ [](\A l \in Loops : /\ INITIAL_BUFFER_SIZE <= current_buffer_size[l]
                         /\ current_buffer_size[l] <= MAX_BUFFER_SIZE)
  /\ [][\A l \in Loops :
          received_length'[l] < current_buffer_size[l]
          => current_buffer_size'[l] <= current_buffer_size[l]]_vars

\* Witness of C27: the ingress loop has reached the maximum by full reads,
\* the egress loop has been shrunk by a short read to a size between the
\* limits.
C27_Witness ==
  /\ current_buffer_size["handle_tcp_client"] = MAX_BUFFER_SIZE
  /\ received_length["handle_tcp_client"] = MAX_BUFFER_SIZE
  /\ current_buffer_size["handle_tcp_responses"] > INITIAL_BUFFER_SIZE
  /\ received_length["handle_tcp_responses"]
       < current_buffer_size["handle_tcp_responses"] \div 2

\* C28: in both directions, what a receiver decodes from the POST a sender
\* made of a payload is that payload, whether or not the sender compressed
\* it.
C28_EnvelopeRoundTrip ==
  decoded_data # NoDelivery
  => decoded_data.status = "ok" /\ decoded_data.bytes = sent_data

\* C29: an insert into the ingress registry never replaces an entry: a
\* session id that has a writer registered keeps that writer until the
\* entry is removed.
C29_InsertNeverReplaces ==
  [][\A sid \in Ports :
       active_client_writers[sid] # 0
       => active_client_writers'[sid] \in {0, active_client_writers[sid]}]_vars

\* C30: the registry lock of the egress is not held across network I/O: a
\* handler that is dialling the target does not hold it.
C30_NoIoUnderLock ==
  \A m \in toEgress : m.st = "dial" => connection_lock # <<"put", m.conn>>

\* C31: on the egress a target connection is dialled only for a session
\* whose callback endpoint is recorded; a pump starts only on a connection
\* whose dial succeeded and whose session has an endpoint; a PUT answered
\* 500 has dialled no connection and started no pump.
C31_EndpointDialPump ==
  /\ [](\A k \in Socks : ppc[k] # "none" => sockState[k] # "unused")
  /\ [][/\ nsocks' # nsocks => response_endpoints'[sockSid'[nsocks']] # "none"
        /\ \A k \in Socks :
             ppc[k] = "none" /\ ppc'[k] # "none"
             => /\ sockState'[k] = "open"
                /\ response_endpoints'[sockSid'[k]] # "none"
        /\ \A m \in toEgress :
             /\ m.kind = "PUT" /\ ~Settled(m)
             /\ [m EXCEPT !.st = "500"] \in toEgress'
             => nsocks' = nsocks /\ ppc' = ppc]_vars

\* Witness of C31: a pump reads a connection that was dialled for a session
\* with an endpoint, and the PUT of another connection was answered 500.
C31_Witness ==
  /\ \E k \in Socks : /\ ppc[k] = "recv" /\ sockState[k] = "open"
                      /\ response_endpoints[sockSid[k]] # "none"
  /\ \E m \in toEgress : m.kind = "PUT" /\ m.st = "500"

\* C32: a read of n bytes at size s leaves the size min(2s, 65536) when
\* n = s < 65536, else max(s/2, 1024) when n < s/4 and s > 1024, else s; six
\* full reads take either loop from 1024 to 65536, where a seventh leaves it.
C32_SizeFollowsReference ==
  /\ [][\A l \in Loops :
          LET size == current_buffer_size[l]
              n == received_length'[l]
          IN received_length'[l] # received_length[l]
               \/ current_buffer_size'[l] # size
             => current_buffer_size'[l]
                  = IF n = size /\ size < 65536
                    THEN (IF 2 * size <= 65536 THEN 2 * size ELSE 65536)
                    ELSE IF 4 * n < size /\ size > 1024
                    THEN (IF size \div 2 >= 1024 THEN size \div 2 ELSE 1024)
                    ELSE size]_vars
  /\ [](LET FullC(size) == handle_tcp_client_adapt(size, size)
            FullS(size) == S_handle_tcp_responses_adapt(size, size)
        IN /\ FullC(FullC(FullC(FullC(FullC(FullC(1024)))))) = 65536
           /\ FullS(FullS(FullS(FullS(FullS(FullS(1024)))))) = 65536
           /\ FullC(FullC(FullC(FullC(FullC(1024))))) < 65536
           /\ FullS(FullS(FullS(FullS(FullS(1024))))) < 65536
           /\ FullC(65536) = 65536 /\ FullS(65536) = 65536)

\* Witness of C32: both loops are at the maximum after a full read.
C32_Witness ==
  \A l \in Loops : /\ current_buffer_size[l] = MAX_BUFFER_SIZE
                   /\ received_length[l] = MAX_BUFFER_SIZE

\* C33: a chunk is sent compressed exactly when compression is enabled at
\* its sender and it is longer than the threshold, and with the header
\* X-Content-Encoding: gzip exactly when it is sent compressed.
C33_CompressedIffLong ==
  request # NoRequest
  => /\ b64decode(request.body).gz = 1
          <=> request.enabled /\ sent_data.raw.len > GZIP_THRESHOLD_BYTES
     /\ request.encoding = "gzip" <=> b64decode(request.body).gz = 1
     /\ b64decode(request.body).gz \in {0, 1}
     /\ b64decode(request.body).raw = sent_data.raw

\* Witness of C33: with compression enabled a chunk of exactly the threshold
\* has been sent as it is, without the header.
C33_Witness ==
  /\ request.from \in {"forward_to_http", "S_handle_tcp_responses"}
  /\ request.enabled /\ sent_data.raw.len = GZIP_THRESHOLD_BYTES
  /\ request.encoding = "none" /\ b64decode(request.body).gz = 0

\* C34: a data POST the egress handles for a session id that has neither a
\* target connection nor an endpoint (after the session's DELETE, or never
\* initialized) leaves both egress maps without an entry for the id.
C34_TrailingPostCreatesNothing ==
  [][\A m \in toEgress :
       /\ m.kind = "POST" /\ m.st = "sent" /\ m \notin toEgress'
       /\ [m EXCEPT !.st = "lost"] \notin toEgress'
       /\ tcp_connections[m.sid] = 0 /\ response_endpoints[m.sid] = "none"
       => /\ tcp_connections'[m.sid] = 0
          /\ response_endpoints'[m.sid] = "none"]_vars

C36_CloserAndPumpDoNotWait ==
  ~(/\ hpc = "waiting" /\ connection_lock[1] = "csc"
    /\ ppc[hsock] = "csc")

\* C37: when an entry leaves the ingress registry, the connection whose
\* writer it held is the one being torn down: no entry of a connection
\* whose writer is still open is removed.
C37_CleanupRemovesOwnEntry ==
  [][\A sid \in Ports :
       active_client_writers[sid] # 0 /\ active_client_writers'[sid] = 0
       => is_closing'[active_client_writers[sid]]]_vars

\* C38: the data of a POST that reached the egress without a Session-ID
\* header is on no target connection.
C38_HeaderlessPostNotWritten ==
  \A k \in Socks : \A i \in 1..Len(sockWritten[k]) :
    sockWritten[k][i][1] # 0

\* A step is taken for session id A: a request bearing A is handled, the
\* pump of a target connection dialled for A moves, or the ingress task of
\* a connection with id A moves.
ActsOn(A) ==
  \/ \E m \in toEgress : m.sid = A /\ m \notin toEgress'
  \/ \E k \in Socks : sockSid[k] = A /\ ppc'[k] # ppc[k]
  \/ \E c \in Conns : session_id[c] = A /\ ipc'[c] # ipc[c]

\* What the relays hold for session id B is left as it is: its registry
\* entries, and the egress end and the pump of its target connections.
SessionUnchanged(B) ==
  /\ tcp_connections'[B] = tcp_connections[B]
  /\ response_endpoints'[B] = response_endpoints[B]
  /\ active_client_writers'[B] = active_client_writers[B]
  /\ \A k \in Socks :
       sockSid[k] = B => /\ sockSid'[k] = B
                         /\ sockState'[k] = sockState[k]
                         /\ sockWritten'[k] = sockWritten[k]
                         /\ pumpRead'[k] = pumpRead[k]
                         /\ ppc'[k] = ppc[k]

\* C39: a step taken for session id A (a PUT, POST or DELETE handled, a
\* teardown) leaves what is held for every other session id as it is.
C39_OtherSessionsUnchanged ==
  [][\A A \in Ports : ActsOn(A) => \A B \in Ports \ {A} : SessionUnchanged(B)]_vars

\* A DELETE has been answered 200 while another session has its target
\* connection open, its endpoint recorded and its pump past its entry.
C39_Witness ==
  \E m \in toEgress :
    /\ m.kind = "DELETE" /\ m.st = "200"
    /\ \E B \in Ports \ {m.sid} :
         /\ EgressOpen(B) /\ response_endpoints[B] # "none"
         /\ ppc[tcp_connections[B]] \notin {"none", "start"}

\* C40: the target connection registered for a session id has a response
\* pump that has been started and has not exited.
C40_RegisteredHasPump ==
  \A sid \in Ports :
    tcp_connections[sid] # 0 => ppc[tcp_connections[sid]] \notin {"none", "done"}

====
